---- MODULE Spec2Model ----
(***************************************************************************)
(* A model of the generative-AI capability abstraction of the repository:  *)
(* the dispatcher (src/ai/index.ts), the three provider adapters           *)
(* (providers/openai.ts, providers/worker-ai.ts, providers/gemini.ts), the *)
(* per-backend schema normalizers and the final_response tool convention.  *)
(*                                                                         *)
(* JavaScript values are modelled as tagged records so that `undefined`,   *)
(* `null`, strings and objects stay distinct and comparable. A string is a *)
(* sequence of tokens (a whitespace character, a code fence, a word or a   *)
(* whole JSON text), so that trimming, prefix tests and concatenation are  *)
(* computed rather than assumed.                                           *)
(***************************************************************************)
EXTENDS Integers, Sequences, FiniteSets, TLC

VARIABLES
    pc,        \* position of the one capability call in flight
    op,        \* dispatcher operation that was called
    adapter,   \* adapter module the dispatcher forwarded to
    input,     \* arguments of the call
    calls,     \* backend requests issued so far, in order
    resp,      \* backend responses received so far, in order
    locals,    \* adapter-local values that outlive an await
    outcome,   \* value returned to the caller, or error thrown
    heap,      \* the caller's tool objects: as built, as they are now, and
               \* the number of calls already made with them
    schema,    \* schema object handled by the normalizer
    lastNorm,  \* the normalizer that last turned `schema`, how many times in a
               \* row, and the schema it was given
    decl,      \* the last tool declaration a converter was asked for
    recs,      \* the recommendations the model advisor has given, in order
    sse,       \* one progress stream: whether it is closed, the frames
               \* enqueued so far, and the calls made on it
    tokenTest, \* the token test in flight: its position, its locals, the
               \* Cloudflare endpoints asked and what they answered
    store      \* the items table and the createItem requests in flight

vars == <<pc, op, adapter, input, calls, resp, locals, outcome, heap, schema, lastNorm,
          decl, recs, sse, tokenTest, store>>

callVars == <<pc, op, adapter, input, calls, resp, locals, outcome, heap>>
normVars == <<schema, lastNorm, decl, recs, sse, tokenTest, store>>

----------------------------------------------------------------------------
(* Bounds of the model.                                                    *)

MaxCalls == 2      \* tool invocations in one backend turn
MaxTools == 2      \* caller-supplied tools in one request
MaxDepth == 2
MaxNormalizations == 2
MaxRounds == 1
MaxRecommendations == 2
MaxStreamCalls == 2
MaxTokenTests == 2
MaxRequests == 3

----------------------------------------------------------------------------
(* JavaScript values.                                                      *)

Undefined == [t |-> "undefined"]
Null      == [t |-> "null"]
Text(cs)  == [t |-> "string", chars |-> cs]   \* the string made of the tokens cs
Str(s)    == Text(IF s = "" THEN <<>> ELSE <<s>>)
Num(n)    == [t |-> "number", v |-> n]
Bool(b)   == [t |-> "boolean", v |-> b]
Obj(f)    == [t |-> "object", v |-> f]        \* f : key -> value
Arr(s)    == [t |-> "array", v |-> s]         \* s : sequence of values

\* a + b on strings
Concat(a, b) == Text(a.chars \o b.chars)

\* JavaScript truthiness (the `||`, `!x` and `if (x)` tests of the code).
Truthy(x) ==
    CASE x.t = "undefined" -> FALSE
      [] x.t = "null"      -> FALSE
      [] x.t = "string"    -> x.chars /= <<>>
      [] x.t = "number"    -> x.v /= 0
      [] x.t = "boolean"   -> x.v
      [] OTHER             -> TRUE

\* typeof x === "object" && x !== null
IsObjectLike(x) == x.t \in {"object", "array"}

\* obj[key] for a plain object; undefined when the key is absent.
Get(x, key) ==
    IF x.t = "object" /\ key \in DOMAIN x.v THEN x.v[key] ELSE Undefined

\* "key" in obj
HasKey(x, key) == x.t = "object" /\ key \in DOMAIN x.v

\* The result of an expression that may throw.
Ok(v)      == [ok |-> TRUE, val |-> v]
Throw(msg) == [ok |-> FALSE, err |-> msg]

SeqsUpTo(S, n) == UNION {[1..k -> S] : k \in 0..n}

RECURSIVE SelectIdx(_, _, _)
\* indices i of s, ascending, with P[i]
SelectIdx(s, P, i) ==
    IF i > Len(s) THEN <<>>
    ELSE (IF P[i] THEN <<i>> ELSE <<>>) \o SelectIdx(s, P, i + 1)

Distinct(s) == \A i, j \in 1..Len(s) : i /= j => s[i] /= s[j]

----------------------------------------------------------------------------
(* Object helpers used by the adapters.                                    *)

\* obj[key] = val on a plain object
Set(x, key, val) ==
    Obj([k \in (DOMAIN x.v) \cup {key} |-> IF k = key THEN val ELSE x.v[k]])

RECURSIVE JsonCopy(_)
\* JSON.parse(JSON.stringify(x)) for a defined value x: a deep copy in which
\* object members whose value is undefined are dropped and undefined array
\* elements become null.
JsonCopy(x) ==
    CASE x.t = "object" ->
            Obj([k \in {j \in DOMAIN x.v : x.v[j] /= Undefined} |-> JsonCopy(x.v[k])])
      [] x.t = "array" ->
            Arr([i \in 1..Len(x.v) |->
                    IF x.v[i] = Undefined THEN Null ELSE JsonCopy(x.v[i])])
      [] OTHER -> x

----------------------------------------------------------------------------
(* Schema normalizers.                                                     *)

OpenAIRejectedKeys   == {"~standard", "$schema", "def"}
WorkerAIRejectedKeys == {"~standard", "$schema", "additionalProperties", "def"}
GeminiRejectedKeys   == {"~standard", "$schema", "additionalProperties", "def"}

RECURSIVE CleanNode(_, _)
\* The inner `clean` closure shared in shape by the three normalizers: returns
\* the object as the in-place deletions leave it. `for (key in obj.properties)`
\* visits the members of an object and the elements of an array.
CleanNode(obj, rejected) ==
    IF ~IsObjectLike(obj) THEN obj
    ELSE IF obj.t = "array" THEN obj
    ELSE
      LET kept == (DOMAIN obj.v) \ rejected
          Child(k) ==
            LET c == obj.v[k] IN
            IF k = "properties" /\ Truthy(c) THEN
                 CASE c.t = "object" -> Obj([p \in DOMAIN c.v |-> CleanNode(c.v[p], rejected)])
                   [] c.t = "array"  -> Arr([i \in 1..Len(c.v) |-> CleanNode(c.v[i], rejected)])
                   [] OTHER          -> c
            ELSE IF k = "items" /\ Truthy(c) THEN CleanNode(c, rejected)
            ELSE c
      IN Obj([k \in kept |-> Child(k)])

\* A cleaner that removes one rejected key per visit of a node (an else-if
\* chain in place of the consecutive deletes).
RECURSIVE CleanNodeOneKey(_, _)
CleanNodeOneKey(obj, rejected) ==
    IF ~IsObjectLike(obj) THEN obj
    ELSE IF obj.t = "array" THEN obj
    ELSE
      LET present == (DOMAIN obj.v) \cap rejected
          one     == IF present = {} THEN {}
                     ELSE {CHOOSE k \in present : TRUE}
          kept    == (DOMAIN obj.v) \ one
          Child(k) ==
            LET c == obj.v[k] IN
            IF k = "properties" /\ Truthy(c) /\ c.t = "object" THEN
                 Obj([p \in DOMAIN c.v |-> CleanNodeOneKey(c.v[p], rejected)])
            ELSE IF k = "items" /\ Truthy(c) THEN CleanNodeOneKey(c, rejected)
            ELSE c
      IN Obj([k \in kept |-> Child(k)])

cleanOpenAISchema_OneKey(s) == CleanNodeOneKey(JsonCopy(s), OpenAIRejectedKeys)

cleanOpenAISchema(s) == CleanNode(JsonCopy(s), OpenAIRejectedKeys)

cleanWorkerAISchema(s) == CleanNode(JsonCopy(s), WorkerAIRejectedKeys)

\* Cleans toolDef.parameters in place and returns toolDef.
cleanGeminiParameters(toolDef) ==
    IF Truthy(Get(toolDef, "parameters"))
    THEN Set(toolDef, "parameters",
             CleanNode(Get(toolDef, "parameters"), GeminiRejectedKeys))
    ELSE toolDef

----------------------------------------------------------------------------
(* Inputs of a call: environment, provider selector, tools, messages.      *)

\* The bindings and secrets of Env the adapters read (TRUE: configured).
FullEnv == [OPENAI_API_KEY |-> TRUE, GEMINI_API_KEY |-> TRUE,
            CLOUDFLARE_ACCOUNT_ID |-> TRUE, AI |-> TRUE]

Envs == {FullEnv,
         [FullEnv EXCEPT !.OPENAI_API_KEY = FALSE],
         [FullEnv EXCEPT !.GEMINI_API_KEY = FALSE],
         [FullEnv EXCEPT !.CLOUDFLARE_ACCOUNT_ID = FALSE],
         [FullEnv EXCEPT !.AI = FALSE]}

\* options.provider as a caller may pass it: absent, empty, a known id, or a
\* string that names no adapter.
Selectors == {Undefined, Str(""), Str("gemini"), Str("openai"),
              Str("worker-ai"), Str("azure")}

SENTINEL == "final_response"

\* JSON Schema of the caller's lookup tool as zod-to-json-schema emits it.
LookupParameters ==
    Set(Obj([type |-> Str("object"),
             properties |-> Obj([q |-> Obj([type |-> Str("number")])]),
             additionalProperties |-> Bool(FALSE)]),
        "$schema", Str("http://json-schema.org/draft-07/schema#"))

\* A caller tool in the `{type: "function", function: {...}}` envelope.
FunctionTool(name, parameters) ==
    Obj([type |-> Str("function"),
         function |-> Obj([name |-> Str(name),
                           description |-> Str("caller tool"),
                           parameters |-> parameters])])

\* A caller tool given flat, without envelope and without parameters.
FlatTool(name) ==
    Obj([name |-> Str(name), description |-> Str("caller tool")])

CallerTool(name) ==
    IF name = "search" THEN FlatTool(name) ELSE FunctionTool(name, LookupParameters)

CallerToolNames == {"lookup", "search", SENTINEL}

\* Caller tool lists: pairwise distinct names, at most MaxTools tools.
ToolLists ==
    {[i \in DOMAIN ns |-> CallerTool(ns[i])] :
        ns \in {s \in SeqsUpTo(CallerToolNames, MaxTools) : Distinct(s)}}

\* The name a tool declaration carries, in either shape.
ToolName(tool) ==
    IF Truthy(Get(tool, "function")) THEN Get(Get(tool, "function"), "name")
    ELSE Get(tool, "name")

\* The caller's target schema: a Zod object schema, carried with the JSON
\* Schema that zodToJsonSchema(schema) yields for it.
TargetJsonSchema ==
    Set(Obj([type |-> Str("object"),
             properties |-> Obj([q |-> Obj([type |-> Str("number")])]),
             required |-> Arr(<<Str("q")>>),
             additionalProperties |-> Bool(FALSE)]),
        "$schema", Str("http://json-schema.org/draft-07/schema#"))

TargetSchema == [t |-> "zod", typeName |-> "ZodObject", json |-> TargetJsonSchema]

zodToJsonSchema(zschema) == zschema.json

\* A Zod null schema, z.null().
ZodNullSchema == [t |-> "zod", typeName |-> "ZodNull", json |-> Obj([type |-> Str("null")])]

\* zodToJsonSchema reads schema._def first: with an undefined or null schema
\* that read raises this TypeError.
NO_DEF == "Cannot read properties of undefined (reading '_def')"

HasNoDef(zschema) == zschema \in {Undefined, Null}

Messages == <<[role |-> "system", content |-> Str("be brief")],
              [role |-> "user", content |-> Null]>>

----------------------------------------------------------------------------
(* JSON.parse on the argument texts a backend may return.                  *)

ArgOk1  == "{\"q\":1}"
ArgOk2  == "{\"q\":2}"
ArgBad  == "{\"q\":"
ArgTexts == {Str(ArgOk1), Str(ArgOk2), Str(ArgBad)}

\* JSON.parse(text) for a string: a value, or the SyntaxError it throws.
JSONParse(text) ==
    CASE text = Str(ArgOk1) -> Ok(Obj([q |-> Num(1)]))
      [] text = Str(ArgOk2) -> Ok(Obj([q |-> Num(2)]))
      [] text = Str("{}")   -> Ok(Obj([k \in {} |-> Undefined]))
      [] text = Str("null") -> Ok(Null)
      [] OTHER              -> Throw(Str("Unexpected end of JSON input"))

\* JSON.stringify(x): a string, or undefined for undefined.
JSONStringify(x) ==
    CASE x = Undefined            -> Undefined
      [] x = Null                 -> Str("null")
      [] x = Obj([q |-> Num(1)])  -> Str(ArgOk1)
      [] x = Obj([q |-> Num(2)])  -> Str(ArgOk2)
      [] x.t = "string"           -> Text(<<"\"">> \o x.chars \o <<"\"">>)
      [] x = Obj([response |-> Str("")]) -> Str("{\"response\":\"\"}")
      [] x = Obj([k \in {} |-> Undefined]) -> Str("{}")
      [] OTHER                    -> Str("{...}")

\* String(x) of JavaScript
JsString(x) ==
    CASE x.t = "string"    -> x
      [] x.t = "undefined" -> Str("undefined")
      [] x.t = "null"      -> Str("null")
      [] x.t = "object"    -> Str("[object Object]")
      [] OTHER             -> Str("value")

----------------------------------------------------------------------------
(* The unified result of generateStructuredWithTools.                      *)

StructuredToolResponse(isSuccess, toolCalls, response, content, error) ==
    [is_success |-> isSuccess, tool_calls |-> toolCalls, response |-> response,
     content |-> content, error |-> error]

\* `{ is_success: false, error }`: the object returned from a catch block.
FailureResponse(error) ==
    StructuredToolResponse(FALSE, Undefined, Undefined, Undefined, error)

\* toolCalls.length > 0 ? toolCalls : undefined
NonEmptyOrUndefined(toolCalls) ==
    IF Len(toolCalls) > 0 THEN Arr(toolCalls) ELSE Undefined

EmptyObj == Obj([k \in {} |-> Undefined])

\* error.message || String(error) for a thrown Error with message msg
ErrorText(msg) == IF Truthy(msg) THEN msg ELSE Str("Error")

\* State of the result-assembly loop over a turn's invocations.
ScanStart == [toolCalls |-> <<>>, finalResponse |-> Undefined, thrown |-> Undefined]

----------------------------------------------------------------------------
(* OpenAI adapter.                                                         *)

DEFAULT_OPENAI_MODEL == "gpt-4o"

toOpenAITool(name, description, zschema) ==
    IF ~Truthy(zschema) \/ zschema.typeName = "ZodNull" THEN
        Obj([type |-> Str("function"),
             function |-> Obj([name |-> Str(name),
                               description |-> Str(description),
                               parameters |-> Obj([type |-> Str("object"),
                                                   properties |-> EmptyObj])])])
    ELSE
        LET cleaned == cleanOpenAISchema(zodToJsonSchema(zschema))
            type    == Get(cleaned, "type")
            coerced ==
              IF type /= Str("object") /\ (type = Str("None") \/ ~Truthy(type)) THEN
                  LET typed == Set(cleaned, "type", Str("object")) IN
                  IF ~Truthy(Get(typed, "properties"))
                  THEN Set(typed, "properties", EmptyObj) ELSE typed
              ELSE cleaned
        IN Obj([type |-> Str("function"),
                function |-> Obj([name |-> Str(name),
                                  description |-> Str(description),
                                  parameters |-> coerced])])

\* getAIGatewayUrl(env, {provider}): the base URL, or the error it throws.
getAIGatewayUrl(env, provider) ==
    IF ~env.CLOUDFLARE_ACCOUNT_ID
    THEN Throw(Str("Missing CLOUDFLARE_ACCOUNT_ID in environment variables"))
    ELSE Ok(Str(provider))

createOpenAIClient(env) ==
    IF ~env.OPENAI_API_KEY THEN Throw(Str("Missing OPENAI_API_KEY"))
    ELSE LET url == getAIGatewayUrl(env, "openai") IN
         IF url.ok THEN Ok(Str("OpenAI client")) ELSE url

\* The `.map` over the tools of a request: each enveloped tool with parameters
\* gets them replaced by their cleaned copy.
OpenAICleanTool(tool) ==
    LET fn == Get(tool, "function") IN
    IF Truthy(fn) /\ Truthy(Get(fn, "parameters"))
    THEN Set(tool, "function",
             Set(fn, "parameters", cleanOpenAISchema(Get(fn, "parameters"))))
    ELSE tool

\* A request builder that appends the sentinel declaration twice.
OpenAIStructuredWithToolsRequest_SentinelTwice(env, messages, tools, zschema) ==
    LET finalTool == toOpenAITool(SENTINEL,
                        "Call this tool to provide the final structured response.",
                        zschema)
        withFinal == Append(Append(tools, finalTool), finalTool)
        allTools  == [i \in DOMAIN withFinal |-> OpenAICleanTool(withFinal[i])]
        client    == createOpenAIClient(env)
    IN IF ~client.ok THEN client
       ELSE Ok([api |-> "openai.chat.completions.create",
                model |-> DEFAULT_OPENAI_MODEL, messages |-> messages,
                tools |-> allTools, tool_choice |-> "auto"])

\* generateStructuredWithTools up to its backend call: the request it sends,
\* or the error it throws before the try block.
OpenAIStructuredWithToolsRequest(env, messages, tools, zschema) ==
    LET finalTool == toOpenAITool(SENTINEL,
                        "Call this tool to provide the final structured response.",
                        zschema)
        withFinal == Append(tools, finalTool)
        allTools  == [i \in DOMAIN withFinal |-> OpenAICleanTool(withFinal[i])]
        client    == createOpenAIClient(env)
    IN IF ~client.ok THEN client
       ELSE Ok([api |-> "openai.chat.completions.create",
                model |-> DEFAULT_OPENAI_MODEL, messages |-> messages,
                tools |-> allTools, tool_choice |-> "auto"])

\* A loop body that lets a sentinel parse failure escape to the outer catch.
OpenAIScanStep_SentinelUncaught(acc, tc) ==
    IF acc.thrown /= Undefined THEN acc
    ELSE IF tc.type /= "function" THEN acc
    ELSE LET parsed == JSONParse(tc.arguments) IN
         IF ~parsed.ok THEN [acc EXCEPT !.thrown = parsed.err]
         ELSE IF tc.name = SENTINEL THEN [acc EXCEPT !.finalResponse = parsed.val]
         ELSE [acc EXCEPT !.toolCalls =
                    Append(@, [name |-> tc.name, arguments |-> parsed.val, id |-> tc.id])]

\* A loop body without the test of the call's kind.
OpenAIScanStep_AnyKind(acc, tc) ==
    IF acc.thrown /= Undefined THEN acc
    ELSE IF tc.name = SENTINEL THEN
         LET parsed == JSONParse(tc.arguments) IN
         IF parsed.ok THEN [acc EXCEPT !.finalResponse = parsed.val] ELSE acc
    ELSE LET parsed == JSONParse(tc.arguments) IN
         IF parsed.ok
         THEN [acc EXCEPT !.toolCalls =
                    Append(@, [name |-> tc.name, arguments |-> parsed.val, id |-> tc.id])]
         ELSE [acc EXCEPT !.thrown = parsed.err]

\* A loop body that skips an ancillary call whose arguments do not parse.
OpenAIScanStep_SkipsUnparsed(acc, tc) ==
    IF acc.thrown /= Undefined THEN acc
    ELSE IF tc.type /= "function" THEN acc
    ELSE LET parsed == JSONParse(tc.arguments) IN
         IF ~parsed.ok THEN acc
         ELSE IF tc.name = SENTINEL THEN [acc EXCEPT !.finalResponse = parsed.val]
         ELSE [acc EXCEPT !.toolCalls =
                    Append(@, [name |-> tc.name, arguments |-> parsed.val, id |-> tc.id])]

\* One iteration of `for (const tc of message.tool_calls)`; `thrown` holds the
\* message of an exception that left the loop.
OpenAIScanStep(acc, tc) ==
    IF acc.thrown /= Undefined THEN acc
    ELSE IF tc.type /= "function" THEN acc
    ELSE IF tc.name = SENTINEL THEN
         LET parsed == JSONParse(tc.arguments) IN
         IF parsed.ok THEN [acc EXCEPT !.finalResponse = parsed.val] ELSE acc
    ELSE LET parsed == JSONParse(tc.arguments) IN
         IF parsed.ok
         THEN [acc EXCEPT !.toolCalls =
                    Append(@, [name |-> tc.name, arguments |-> parsed.val, id |-> tc.id])]
         ELSE [acc EXCEPT !.thrown = parsed.err]

RECURSIVE OpenAIScan(_, _, _)
OpenAIScan(tcs, i, acc) ==
    IF i > Len(tcs) THEN acc ELSE OpenAIScan(tcs, i + 1, OpenAIScanStep(acc, tcs[i]))

\* generateStructuredWithTools from the backend's answer to its return value.
OpenAIStructuredWithToolsResult(r) ==
    IF r.t = "throw" THEN FailureResponse(ErrorText(r.error))
    ELSE IF r.t = "nochoices" THEN
        FailureResponse(Str("Cannot read properties of undefined (reading 'message')"))
    ELSE
        LET acc == IF Truthy(r.tool_calls)
                   THEN OpenAIScan(r.tool_calls.v, 1, ScanStart) ELSE ScanStart
            isSuccess == acc.finalResponse /= Undefined
        IN IF acc.thrown /= Undefined THEN FailureResponse(ErrorText(acc.thrown))
           ELSE StructuredToolResponse(
                    isSuccess,
                    NonEmptyOrUndefined(acc.toolCalls),
                    acc.finalResponse,
                    IF Truthy(r.content) THEN r.content ELSE Undefined,
                    IF isSuccess THEN Undefined
                    ELSE Str("Model did not call final_response tool"))

\* Backend answers. A tool call of kind "function" carries a name and its
\* arguments as JSON text; any other kind has no `function` member.
OpenAIToolCallShapes ==
    {[type |-> "function", name |-> n, arguments |-> a] :
        n \in {SENTINEL, "lookup"}, a \in ArgTexts}
    \cup {[type |-> "custom", name |-> SENTINEL, arguments |-> Str(ArgOk1)]}

WithIds(shapes) ==
    [i \in DOMAIN shapes |->
        [type |-> shapes[i].type, name |-> shapes[i].name,
         arguments |-> shapes[i].arguments, id |-> i]]

Contents == {Null, Str("thinking")}

OpenAIResponses ==
    {[t |-> "throw", error |-> Str("Connection error.")], [t |-> "nochoices"]}
    \cup {[t |-> "completion", content |-> c, tool_calls |-> Undefined] : c \in Contents}
    \cup {[t |-> "completion", content |-> c, tool_calls |-> Arr(WithIds(tcs))] :
            c \in Contents, tcs \in SeqsUpTo(OpenAIToolCallShapes, MaxCalls)}

----------------------------------------------------------------------------
(* Worker AI adapter: tools.                                               *)

TEXT_FAST == "@cf/meta/llama-3-8b-instruct"

\* The declaration, or the error zodToJsonSchema raises.
toWorkerAITool(name, description, zschema) ==
    IF HasNoDef(zschema) THEN Throw(Str(NO_DEF))
    ELSE Ok(Obj([type |-> Str("function"),
                 function |-> Obj([name |-> Str(name),
                                   description |-> Str(description),
                                   parameters |->
                                       cleanWorkerAISchema(zodToJsonSchema(zschema))])]))

WorkerAICleanTool(tool) ==
    LET fn == Get(tool, "function") IN
    IF Truthy(fn) /\ Truthy(Get(fn, "parameters"))
    THEN Set(tool, "function",
             Set(fn, "parameters", cleanWorkerAISchema(Get(fn, "parameters"))))
    ELSE tool

\* The message copy generateStructuredWithTools sends: null or undefined
\* content becomes the empty string.
WorkerAISanitizeMessage(m) ==
    [role |-> m.role,
     content |-> IF m.content \in {Null, Undefined} THEN Str("") ELSE m.content]

\* env.AI.run(model, payload): the request handed to the binding, or the
\* TypeError of calling `run` on a missing binding.
WorkerAIRun(env, model, payload) ==
    IF ~env.AI THEN Throw(Str("Cannot read properties of undefined (reading 'run')"))
    ELSE Ok([api |-> "env.AI.run", model |-> model, payload |-> payload])

\* generateStructuredWithTools up to its backend call; everything here runs
\* inside the try block.
WorkerAIStructuredWithToolsRequest(env, messages, tools, zschema) ==
    LET finalTool == toWorkerAITool(SENTINEL,
                        "Call this tool to provide the final structured response.",
                        zschema).val
        withFinal == Append(tools, finalTool)
        allTools  == [i \in DOMAIN withFinal |-> WorkerAICleanTool(withFinal[i])]
        sanitized == [i \in DOMAIN messages |-> WorkerAISanitizeMessage(messages[i])]
    IN WorkerAIRun(env, TEXT_FAST, [messages |-> sanitized, tools |-> allTools])

\* One iteration of `for (const tc of result.tool_calls)`.
WorkerAIScanStep(acc, tc) ==
    IF tc.name = SENTINEL THEN [acc EXCEPT !.finalResponse = tc.arguments]
    ELSE [acc EXCEPT !.toolCalls = Append(@, tc)]

RECURSIVE WorkerAIScan(_, _, _)
WorkerAIScan(tcs, i, acc) ==
    IF i > Len(tcs) THEN acc ELSE WorkerAIScan(tcs, i + 1, WorkerAIScanStep(acc, tcs[i]))

\* generateStructuredWithTools from the binding's answer to its return value.
WorkerAIStructuredWithToolsResult(r) ==
    IF r.t = "throw" THEN FailureResponse(ErrorText(r.error))
    ELSE IF r.value \in {Null, Undefined} THEN
        FailureResponse(Str("Cannot read properties of null (reading 'tool_calls')"))
    ELSE
        LET result == r.value
            tcs == Get(result, "tool_calls")
            acc == IF Truthy(tcs) THEN WorkerAIScan(tcs.v, 1, ScanStart) ELSE ScanStart
            isSuccess == acc.finalResponse /= Undefined
        IN StructuredToolResponse(
                isSuccess,
                NonEmptyOrUndefined(acc.toolCalls),
                acc.finalResponse,
                IF Truthy(Get(result, "response")) THEN JsString(Get(result, "response"))
                ELSE Undefined,
                IF isSuccess THEN Undefined
                ELSE Str("Model did not call final_response tool"))

ArgValues == {Obj([q |-> Num(1)]), Obj([q |-> Num(2)])}

\* Worker AI returns invocations with structured arguments; an invocation
\* may come without any.
WorkerAIToolCallShapes ==
    {[name |-> n, arguments |-> a] :
        n \in {SENTINEL, "lookup"}, a \in ArgValues \cup {Undefined}}

WorkerAIToolResponses ==
    {[t |-> "throw", error |-> Str("InferenceUpstreamError")],
     [t |-> "value", value |-> Null],
     [t |-> "value", value |-> Str("plain answer")]}
    \cup {[t |-> "value", value |-> Obj([response |-> c])] : c \in Contents}
    \cup {[t |-> "value", value |-> Obj([response |-> c, tool_calls |-> Arr(tcs)])] :
            c \in Contents, tcs \in SeqsUpTo(WorkerAIToolCallShapes, MaxCalls)}

----------------------------------------------------------------------------
(* Gemini adapter: tools.                                                  *)

DEFAULT_GEMINI_MODEL == "gemini-2.0-flash"

\* JSON.parse with the fallback of safeJsonParse.
safeJsonParse(content) ==
    IF ~Truthy(content) THEN EmptyObj
    ELSE LET parsed == JSONParse(content) IN
         IF parsed.ok THEN parsed.val ELSE Obj([result |-> content])

\* content || ""
OrEmpty(content) == IF Truthy(content) THEN content ELSE Str("")

toGeminiHistoryEntry(msg) ==
    CASE msg.role = "user" ->
            [role |-> "user", parts |-> <<[text |-> OrEmpty(msg.content)]>>]
      [] msg.role = "assistant" ->
            IF "tool_calls" \in DOMAIN msg /\ Len(msg.tool_calls) > 0
            THEN [role |-> "model",
                  parts |-> [i \in DOMAIN msg.tool_calls |->
                                [functionCall |-> [name |-> msg.tool_calls[i].name,
                                                   args |-> msg.tool_calls[i].arguments]]]]
            ELSE [role |-> "model", parts |-> <<[text |-> OrEmpty(msg.content)]>>]
      [] msg.role = "system" ->
            [role |-> "user",
             parts |-> <<[text |-> Concat(Str("System Context: "), JsString(msg.content))]>>]
      [] msg.role = "tool" ->
            LET name == IF "name" \in DOMAIN msg /\ Truthy(msg.name)
                        THEN msg.name ELSE Str("unknown_tool")
            IN [role |-> "function",
                parts |-> <<[functionResponse |->
                               [name |-> name,
                                response |-> [name |-> name,
                                              content |-> safeJsonParse(msg.content)]]]>>]
      [] OTHER ->
            [role |-> "user", parts |-> <<[text |-> OrEmpty(msg.content)]>>]

toGeminiHistory(history) == [i \in DOMAIN history |-> toGeminiHistoryEntry(history[i])]

\* Zod parameters are recognised by their `_def` / `parse` members.
IsZodLike(x) == x.t = "zod"

normalizeTool(tool) ==
    LET fn == Get(tool, "function")
        normalized ==
          IF Get(tool, "type") = Str("function") /\ Truthy(fn) THEN fn
          ELSE IF Truthy(Get(tool, "type")) /\ ~Truthy(fn)
               THEN Obj([k \in (DOMAIN tool.v) \ {"type", "execute"} |-> tool.v[k]])
          ELSE Obj([k \in (DOMAIN tool.v) \ {"execute"} |-> tool.v[k]])
        params == Get(normalized, "parameters")
        converted ==
          IF Truthy(params) /\ IsZodLike(params) THEN
              LET jsonSchema == zodToJsonSchema(params) IN
              Set(normalized, "parameters",
                  Obj([type |-> Str("OBJECT"),
                       properties |-> IF Truthy(Get(jsonSchema, "properties"))
                                      THEN Get(jsonSchema, "properties") ELSE EmptyObj,
                       required |-> IF Truthy(Get(jsonSchema, "required"))
                                    THEN Get(jsonSchema, "required") ELSE Arr(<<>>)]))
          ELSE normalized
    IN cleanGeminiParameters(converted)

\* The declaration, or the error zodToJsonSchema raises.
toGeminiTool(name, description, zschema) ==
    IF HasNoDef(zschema) THEN Throw(Str(NO_DEF))
    ELSE LET jsonSchema == zodToJsonSchema(zschema) IN
         Ok(cleanGeminiParameters(
                Obj([name |-> Str(name),
                     description |-> Str(description),
                     parameters |-> Obj([type |-> Str("OBJECT"),
                                         properties |-> Get(jsonSchema, "properties"),
                                         required |-> Get(jsonSchema, "required")])])))

\* createGeminiClient without its test of the key and the account id.
createGeminiClient_Unchecked(env) == Ok(Str("Gemini client"))

createGeminiClient(env) ==
    IF ~env.GEMINI_API_KEY \/ ~env.CLOUDFLARE_ACCOUNT_ID
    THEN Throw(Str("Missing GEMINI_API_KEY or CLOUDFLARE_ACCOUNT_ID"))
    ELSE LET url == getAIGatewayUrl(env, "google-ai-studio") IN
         IF url.ok THEN Ok(Str("Gemini client")) ELSE url

\* generateStructuredWithTools up to its backend call: the request it sends,
\* or the error it throws before the try block.
GeminiStructuredWithToolsRequest(env, messages, tools, zschema) ==
    LET finalTool == toGeminiTool(SENTINEL, "Provide final structured response.",
                                  zschema).val
        withFinal == Append(tools, finalTool)
        allTools  == [i \in DOMAIN withFinal |-> normalizeTool(withFinal[i])]
        client    == createGeminiClient(env)
    IN IF ~client.ok THEN client
       ELSE Ok([api |-> "gemini.models.generateContent",
                model |-> DEFAULT_GEMINI_MODEL,
                contents |-> toGeminiHistory(messages),
                tools |-> allTools])

\* One iteration of `for (const part of parts)`; i stands for the fresh
\* randomUUID of the invocation.
GeminiScanStep(acc, part, i) ==
    IF part.functionCall = Undefined THEN acc
    ELSE IF part.functionCall.name = SENTINEL
         THEN [acc EXCEPT !.finalResponse = part.functionCall.args]
    ELSE [acc EXCEPT !.toolCalls =
              Append(@, [name |-> part.functionCall.name,
                         arguments |-> part.functionCall.args,
                         id |-> [prefix |-> "call_", uuid |-> i]])]

RECURSIVE GeminiScan(_, _, _)
GeminiScan(parts, i, acc) ==
    IF i > Len(parts) THEN acc
    ELSE GeminiScan(parts, i + 1, GeminiScanStep(acc, parts[i], i))

RECURSIVE GeminiText(_, _)
\* the `if (part.text) content += part.text` of the loop, from part i on
GeminiText(parts, i) ==
    IF i > Len(parts) THEN Str("")
    ELSE Concat(IF Truthy(parts[i].text) THEN parts[i].text ELSE Str(""),
                GeminiText(parts, i + 1))

\* generateStructuredWithTools from the SDK's answer to its return value.
GeminiStructuredWithToolsResult(r) ==
    IF r.t = "throw" THEN FailureResponse(r.error)
    ELSE IF ~r.hasCandidate THEN FailureResponse(Str("Empty response"))
    ELSE
        LET parts == r.parts
            acc == GeminiScan(parts, 1, ScanStart)
            content == GeminiText(parts, 1)
        IN StructuredToolResponse(
                acc.finalResponse /= Undefined,
                NonEmptyOrUndefined(acc.toolCalls),
                acc.finalResponse,
                IF Truthy(content) THEN content ELSE Undefined,
                IF acc.finalResponse = Undefined
                THEN Str("Model did not call final_response") ELSE Undefined)

GeminiPartShapes ==
    {[text |-> Str("thinking"), functionCall |-> Undefined]}
    \cup {[text |-> Undefined, functionCall |-> [name |-> n, args |-> a]] :
            n \in {SENTINEL, "lookup"}, a \in ArgValues \cup {Undefined}}

\* `parts` holds candidates[0].content.parts; hasCandidate is FALSE when the
\* SDK returned no candidate.
GeminiToolResponses ==
    {[t |-> "throw", error |-> Str("got status: 503")],
     [t |-> "result", hasCandidate |-> FALSE, parts |-> <<>>]}
    \cup {[t |-> "result", hasCandidate |-> TRUE, parts |-> parts] :
            parts \in SeqsUpTo(GeminiPartShapes, MaxCalls)}

----------------------------------------------------------------------------
(* String helpers of the sanitizer (src/ai/utils/sanitizer.ts).            *)

Whitespace == {" ", "\n"}

RECURSIVE TrimStart(_)
TrimStart(cs) ==
    IF cs /= <<>> /\ Head(cs) \in Whitespace THEN TrimStart(Tail(cs)) ELSE cs

RECURSIVE TrimEnd(_)
TrimEnd(cs) ==
    IF cs /= <<>> /\ cs[Len(cs)] \in Whitespace
    THEN TrimEnd(SubSeq(cs, 1, Len(cs) - 1)) ELSE cs

\* text.trim()
Trim(text) == Text(TrimEnd(TrimStart(text.chars)))

\* cs with its first token dropped when that token is tok
DropLeading(cs, tok) == IF cs /= <<>> /\ Head(cs) = tok THEN Tail(cs) ELSE cs

\* cs with its last token dropped when that token is tok
DropTrailing(cs, tok) ==
    IF cs /= <<>> /\ cs[Len(cs)] = tok THEN SubSeq(cs, 1, Len(cs) - 1) ELSE cs

\* the token of three backquotes that opens or closes a Markdown code fence
FENCE == "<fence>"

\* Strips a Markdown code fence: trim, then, if the text starts with a fence,
\* the opening fence with its optional "json" tag and newline is removed, and
\* the closing fence with its optional preceding newline.
cleanJsonOutput(text) ==
    LET clean == Trim(text).chars IN
    IF clean /= <<>> /\ Head(clean) = FENCE THEN
        LET opened == DropLeading(DropLeading(Tail(clean), "json"), "\n")
            closed == IF opened /= <<>> /\ opened[Len(opened)] = FENCE
                      THEN DropTrailing(SubSeq(opened, 1, Len(opened) - 1), "\n")
                      ELSE opened
        IN Text(closed)
    ELSE Text(clean)

\* sanitizeAndFormatResponse on texts of words and whitespace (no markup
\* characters): the fence cleanup, then every newline becomes <br>.
sanitizeAndFormatResponse(text) ==
    IF ~Truthy(text) THEN Str("")
    ELSE LET cleaned == cleanJsonOutput(text).chars IN
         Text([i \in DOMAIN cleaned |-> IF cleaned[i] = "\n" THEN "<br>" ELSE cleaned[i]])

----------------------------------------------------------------------------
(* Worker AI adapter: text, structured (two-phase), vision, embeddings.    *)

REASONING_MODEL   == "@cf/meta/llama-3.3-70b-instruct-fp8-fast"
STRUCTURING_MODEL == "@cf/meta/llama-3.3-70b-instruct-fp8-fast"
VISION_MODEL      == "@cf/meta/llama-3.2-11b-vision-instruct"
WORKER_EMBEDDING_MODEL == "@cf/baai/bge-large-en-v1.5"

\* a || b on values
Or(a, b) == IF Truthy(a) THEN a ELSE b

\* a parameter with a default value: the default replaces undefined only
DefaultParam(x, d) == IF x = Undefined THEN d ELSE x

\* [system message if any, user message]
ChatMessages(systemPrompt, prompt) ==
    (IF Truthy(systemPrompt) THEN <<[role |-> "system", content |-> systemPrompt]>>
     ELSE <<>>) \o <<[role |-> "user", content |-> prompt]>>

\* generateText up to its backend call. The payload is { messages }; the
\* options (effort, sanitize) do not enter the request.
WorkerAIGenerateTextRequest(env, prompt, systemInstruction, model, options) ==
    WorkerAIRun(env, Or(model, Str(REASONING_MODEL)),
                [messages |-> ChatMessages(systemInstruction, prompt)])

\* new Error("Failed to generate text: " + message)
WorkerAITextError(msg) == Concat(Str("Failed to generate text: "), msg)

\* generateText from the binding's answer to its return value or its throw.
WorkerAIGenerateTextResult(r, options) ==
    IF r.t = "throw" THEN Throw(WorkerAITextError(r.error))
    ELSE
        LET response == r.value
            textResult ==
              IF IsObjectLike(response) /\ HasKey(response, "response")
              THEN LET raw == Get(response, "response") IN
                   IF raw.t = "string" THEN raw ELSE JSONStringify(raw)
              ELSE JsString(response)
        IN IF options.sanitize THEN Ok(sanitizeAndFormatResponse(textResult))
           ELSE Ok(textResult)

\* The schema branch shared by the adapters' generateStructured: a Zod
\* schema is converted, anything else is taken as JSON Schema already.
JsonSchemaOf(schemaArg) ==
    IF IsZodLike(schemaArg) THEN zodToJsonSchema(schemaArg) ELSE schemaArg

ANALYZE_INSTRUCTION ==
    "Analyze the following input comprehensively. Provide a detailed analysis that covers all aspects required."

DEFAULT_STRUCTURING_PROMPT ==
    "Extract information from the analysis and format it strictly according to the JSON schema."

\* Phase 1 of generateStructured: the reasoning call.
WorkerAIReasoningRequest(env, prompt, options) ==
    WorkerAIGenerateTextRequest(env, prompt, Str(ANALYZE_INSTRUCTION),
        Or(options.modelName, Str(REASONING_MODEL)),
        [effort |-> Or(options.reasoningEffort, Str("high")), sanitize |-> FALSE])

\* A guard that rejects only an absent Phase 1 output.
ReasoningIsEmpty_NoTrim(reasoningOutput) == ~Truthy(reasoningOutput)

\* !reasoningOutput || reasoningOutput.trim().length === 0
ReasoningIsEmpty(reasoningOutput) ==
    ~Truthy(reasoningOutput) \/ Len(Trim(reasoningOutput).chars) = 0

\* Phase 2 of generateStructured: the structuring call, or the error thrown
\* in its place.
WorkerAIStructuringRequest(env, reasoningOutput, schemaArg, systemPrompt, options) ==
    IF ReasoningIsEmpty(reasoningOutput)
    THEN Throw(Str("Reasoning model returned no content."))
    ELSE WorkerAIRun(env, Str(STRUCTURING_MODEL),
            [messages |->
                <<[role |-> "system",
                   content |-> Or(systemPrompt,
                                  Or(options.structuringInstruction,
                                     Str(DEFAULT_STRUCTURING_PROMPT)))],
                  [role |-> "user",
                   content |-> Concat(Str("Analysis Content:\n"), reasoningOutput)]>>,
             response_format |->
                [type |-> "json_schema",
                 json_schema |-> [name |-> "structured_output",
                                  schema |-> cleanWorkerAISchema(JsonSchemaOf(schemaArg)),
                                  strict |-> TRUE]]])

\* generateStructured from the structuring answer to its return or throw.
WorkerAIStructuredResult(r) ==
    IF r.t = "throw" THEN Throw(r.error)
    ELSE IF IsObjectLike(r.value) /\ HasKey(r.value, "response") THEN
        LET rawJson == Get(r.value, "response") IN
        \* typeof null is "object" as well
        IF IsObjectLike(rawJson) \/ rawJson = Null THEN Ok(rawJson)
        ELSE JSONParse(cleanJsonOutput(JsString(rawJson)))
    ELSE Throw(Str("Unexpected response format from structuring model"))

\* Vision input: { type: "base64" | "url", data, mimeType? }
Images == {[type |-> "base64", data |-> Str("aGk=")],
           [type |-> "url", data |-> Str("https://example.com/a.png")]}

\* generateVision up to its backend call.
WorkerAIVisionRequest(env, image, prompt, options) ==
    IF image.type = "base64"
    THEN WorkerAIRun(env, Or(options.modelName, Str(VISION_MODEL)),
                     [prompt |-> prompt, image |-> [decoded |-> image.data]])
    ELSE Throw(Str("Worker AI currently requires Base64 image input."))

\* return response.response || JSON.stringify(response)
WorkerAIVisionResult(r) ==
    IF r.t = "throw" THEN Throw(r.error)
    ELSE IF r.value \in {Null, Undefined}
         THEN Throw(Str("Cannot read properties of null (reading 'response')"))
    ELSE Ok(Or(Get(r.value, "response"), JSONStringify(r.value)))

VISION_SUFFIX ==
    " \n    Describe the image in extreme detail, focusing specifically on the data points required to answer the prompt. \n    Do not output JSON yet, just describe the visual facts."

\* generateVisionStructured: the prompt of its vision call
VisionValidationPrompt(prompt) == Concat(prompt, Str(VISION_SUFFIX))

\* generateVisionStructured: the prompt of its structured call
\* An extraction prompt that leaves the description out.
VisionExtractionPrompt_NoDescription(rawDescription) ==
    Str("Extract data from this visual description:\n\n")

VisionExtractionPrompt(rawDescription) ==
    Concat(Str("Extract data from this visual description:\n\n"), JsString(rawDescription))

WorkerAIEmbeddingsRequest(env, text, options) ==
    WorkerAIRun(env, Or(options.model, Str(WORKER_EMBEDDING_MODEL)), [text |-> <<text>>])

\* return response.data[0]
WorkerAIEmbeddingsResult(r) ==
    IF r.t = "throw" THEN Throw(r.error)
    ELSE IF ~HasKey(r.value, "data")
         THEN Throw(Str("Cannot read properties of undefined (reading '0')"))
    ELSE LET data == Get(r.value, "data").v IN
         Ok(IF Len(data) > 0 THEN data[1] ELSE Undefined)

WorkerAIWithToolsRequest(env, messages, tools, model) ==
    WorkerAIRun(env, DefaultParam(model, Str(TEXT_FAST)),
        [messages |-> messages,
         tools |-> [i \in DOMAIN tools |-> WorkerAICleanTool(tools[i])]])

\* { content: typeof result === "string" ? result : result.response || null,
\*   tool_calls: result.tool_calls || [] }
WorkerAIWithToolsResult(r) ==
    IF r.t = "throw" THEN Throw(r.error)
    ELSE IF r.value \in {Null, Undefined}
         THEN Throw(Str("Cannot read properties of null (reading 'response')"))
    ELSE Ok([content |-> IF r.value.t = "string" THEN r.value
                         ELSE Or(Get(r.value, "response"), Null),
             tool_calls |-> Or(Get(r.value, "tool_calls"), Arr(<<>>))])

\* What the binding may answer to a text or reasoning call.
ReasoningTexts == {Text(<<>>), Text(<<" ">>), Text(<<" ", "\n">>),
                   Text(<<"analysis">>), Text(<<" ", "analysis", "\n">>)}

WorkerAITextResponses ==
    {[t |-> "throw", error |-> Str("InferenceUpstreamError")]}
    \cup {[t |-> "value", value |-> v] :
            v \in {Undefined, Null, Str("plain answer"), EmptyObj}}
    \cup {[t |-> "value", value |-> Obj([response |-> x])] :
            x \in ReasoningTexts \cup {Undefined, Null, Obj([q |-> Num(1)])}}

\* What the binding may answer to the structuring call.
WorkerAIStructuringResponses ==
    {[t |-> "throw", error |-> Str("InferenceUpstreamError")],
     [t |-> "value", value |-> Str("plain answer")],
     [t |-> "value", value |-> EmptyObj]}
    \cup {[t |-> "value", value |-> Obj([response |-> y])] :
            y \in {Obj([q |-> Num(1)]), Null, Str(ArgOk1), Str(ArgBad),
                   Text(<<FENCE, "json", "\n", ArgOk1, "\n", FENCE>>),
                   Text(<<" ", ArgOk2, "\n">>)}}

WorkerAIVisionResponses ==
    {[t |-> "throw", error |-> Str("InferenceUpstreamError")],
     [t |-> "value", value |-> Null],
     [t |-> "value", value |-> Obj([response |-> Str("a red door")])],
     [t |-> "value", value |-> Obj([response |-> Str("")])],
     [t |-> "value", value |-> EmptyObj]}

WorkerAIEmbeddingsResponses ==
    {[t |-> "throw", error |-> Str("InferenceUpstreamError")],
     [t |-> "value", value |-> EmptyObj],
     [t |-> "value", value |-> Obj([data |-> Arr(<<>>)])],
     [t |-> "value", value |-> Obj([data |-> Arr(<<Arr(<<Num(1), Num(2)>>)>>)])]}

----------------------------------------------------------------------------
(* OpenAI adapter: text, structured, vision, embeddings, tools.            *)

DEFAULT_OPENAI_EMBEDDING_MODEL == "text-embedding-3-small"

\* client.chat.completions.create(payload) on a client that could be built;
\* the client is built before anything else, outside the try block.
OpenAIChat(env, payload) ==
    LET client == createOpenAIClient(env) IN
    IF ~client.ok THEN client
    ELSE Ok([api |-> "openai.chat.completions.create", payload |-> payload])

OpenAIGenerateTextRequest(env, prompt, systemPrompt, model) ==
    OpenAIChat(env, [model |-> Or(model, Str(DEFAULT_OPENAI_MODEL)),
                     messages |-> ChatMessages(systemPrompt, prompt)])

\* completion.choices[0].message.content || fallback
OpenAIContentOr(r, fallback) ==
    CASE r.t = "throw"     -> Throw(r.error)
      [] r.t = "nochoices" -> Throw(Str("Cannot read properties of undefined (reading 'message')"))
      [] OTHER             -> Ok(Or(r.content, fallback))

OpenAIGenerateTextResult(r) == OpenAIContentOr(r, Str(""))

OpenAIStructuredRequest(env, prompt, schemaArg, systemPrompt, options) ==
    OpenAIChat(env, [model |-> Or(options.modelName, Str(DEFAULT_OPENAI_MODEL)),
                     messages |-> ChatMessages(systemPrompt, prompt),
                     response_format |->
                        [type |-> "json_schema",
                         json_schema |-> [name |-> "response",
                                          schema |-> cleanOpenAISchema(JsonSchemaOf(schemaArg)),
                                          strict |-> TRUE]]])

\* JSON.parse(completion.choices[0].message.content || "{}")
OpenAIStructuredResult(r) ==
    LET content == OpenAIContentOr(r, Str("{}")) IN
    IF content.ok THEN JSONParse(content.val) ELSE content

OpenAIVisionRequest(env, image, prompt, options) ==
    LET imageUrlContent ==
            IF image.type = "url" THEN image.data
            ELSE Concat(Str("data:image/jpeg;base64,"), image.data)
    IN OpenAIChat(env, [model |-> Or(options.modelName, Str(DEFAULT_OPENAI_MODEL)),
                        messages |-> <<[role |-> "user",
                                        content |-> <<[type |-> "text", text |-> prompt],
                                                      [type |-> "image_url",
                                                       url |-> imageUrlContent]>>]>>])

OpenAIVisionResult(r) == OpenAIContentOr(r, Str(""))

OpenAIEmbeddingsRequest(env, text, options) ==
    LET client == createOpenAIClient(env) IN
    IF ~client.ok THEN client
    ELSE Ok([api |-> "openai.embeddings.create",
             payload |-> [model |-> Or(options.model, Str(DEFAULT_OPENAI_EMBEDDING_MODEL)),
                          input |-> text, encoding_format |-> "float"]])

OpenAIEmbeddingsResult(r) ==
    IF r.t = "throw" THEN Throw(r.error)
    ELSE LET data == Get(r.value, "data") IN
         IF ~Truthy(data) \/ Len(data.v) = 0
         THEN Throw(Str("OpenAI API returned no embedding data."))
         ELSE Ok(Get(data.v[1], "embedding"))

OpenAIWithToolsRequest(env, messages, tools, model) ==
    OpenAIChat(env, [model |-> Or(model, Str(DEFAULT_OPENAI_MODEL)),
                     messages |-> messages,
                     tools |-> [i \in DOMAIN tools |-> OpenAICleanTool(tools[i])]])

RECURSIVE OpenAIMapToolCalls(_, _)
\* .filter(type === "function").map({ id, name, arguments: JSON.parse(...) })
OpenAIMapToolCalls(tcs, i) ==
    IF i > Len(tcs) THEN Ok(<<>>)
    ELSE IF tcs[i].type /= "function" THEN OpenAIMapToolCalls(tcs, i + 1)
    ELSE LET parsed == JSONParse(tcs[i].arguments)
             rest == OpenAIMapToolCalls(tcs, i + 1)
         IN IF ~parsed.ok THEN parsed
            ELSE IF ~rest.ok THEN rest
            ELSE Ok(<<[id |-> tcs[i].id, name |-> tcs[i].name,
                       arguments |-> parsed.val]>> \o rest.val)

OpenAIWithToolsResult(r) ==
    CASE r.t = "throw"     -> Throw(r.error)
      [] r.t = "nochoices" -> Throw(Str("Cannot read properties of undefined (reading 'message')"))
      [] OTHER ->
            LET toolCalls == IF Truthy(r.tool_calls)
                             THEN OpenAIMapToolCalls(r.tool_calls.v, 1) ELSE Ok(<<>>)
            IN IF ~toolCalls.ok THEN toolCalls
               ELSE Ok([content |-> r.content, tool_calls |-> Arr(toolCalls.val)])

AnswerTexts == {Null, Str(""), Str("plain answer"), Str(ArgOk1), Str(ArgBad)}

OpenAITextResponses ==
    {[t |-> "throw", error |-> Str("Connection error.")], [t |-> "nochoices"]}
    \cup {[t |-> "completion", content |-> c, tool_calls |-> Undefined] : c \in AnswerTexts}

OpenAIEmbeddingsResponses ==
    {[t |-> "throw", error |-> Str("Connection error.")],
     [t |-> "value", value |-> EmptyObj],
     [t |-> "value", value |-> Obj([data |-> Arr(<<>>)])],
     [t |-> "value", value |->
        Obj([data |-> Arr(<<Obj([embedding |-> Arr(<<Num(1), Num(2)>>)])>>)])]}

----------------------------------------------------------------------------
(* Gemini adapter: text, structured, vision, embeddings, tools.            *)

DEFAULT_GEMINI_EMBEDDING_MODEL == "text-embedding-004"

\* client.models.generateContent(payload) on a client that could be built
GeminiGenerateContent(env, payload) ==
    LET client == createGeminiClient(env) IN
    IF ~client.ok THEN client
    ELSE Ok([api |-> "gemini.models.generateContent", payload |-> payload])

UserContents(prompt) == <<[role |-> "user", parts |-> <<[text |-> prompt]>>]>>

GeminiGenerateTextRequest(env, prompt, systemPrompt, model) ==
    GeminiGenerateContent(env, [model |-> Or(model, Str(DEFAULT_GEMINI_MODEL)),
                                config |-> [systemInstruction |-> systemPrompt],
                                contents |-> UserContents(prompt)])

\* result.text || ""
GeminiGenerateTextResult(r) ==
    IF r.t = "throw" THEN Throw(r.error) ELSE Ok(Or(r.text, Str("")))

\* delete jsonSchema.$schema; delete jsonSchema.additionalProperties
DeleteKeys(x, keys) ==
    IF x.t = "object" THEN Obj([k \in DOMAIN x.v \ keys |-> x.v[k]]) ELSE x

GeminiResponseSchema(schemaArg) ==
    IF IsZodLike(schemaArg)
    THEN DeleteKeys(zodToJsonSchema(schemaArg), {"$schema", "additionalProperties"})
    ELSE schemaArg

GeminiStructuredRequest(env, prompt, schemaArg, systemPrompt, options) ==
    GeminiGenerateContent(env,
        [model |-> Or(options.modelName, Str(DEFAULT_GEMINI_MODEL)),
         config |-> [systemInstruction |-> systemPrompt,
                     responseMimeType |-> "application/json",
                     responseSchema |-> GeminiResponseSchema(schemaArg)],
         contents |-> UserContents(prompt)])

\* GeminiStructuredResult with a fallback object in place of every error.
GeminiStructuredResult_Fallback(r) ==
    IF r.t = "throw" \/ ~Truthy(r.text) \/ ~JSONParse(r.text).ok THEN Ok(EmptyObj)
    ELSE JSONParse(r.text)

GeminiStructuredResult(r) ==
    IF r.t = "throw" THEN Throw(r.error)
    ELSE IF ~Truthy(r.text) THEN Throw(Str("Empty response from Gemini"))
    ELSE JSONParse(r.text)

\* GeminiVisionRequest without the test of image.type: a remote reference is
\* sent on as inline data.
GeminiVisionRequest_AcceptsUrl(env, image, prompt, options) ==
    LET client == createGeminiClient(env) IN
    IF ~client.ok THEN client
    ELSE GeminiGenerateContent(env,
            [model |-> Or(options.modelName, Str(DEFAULT_GEMINI_MODEL)),
             contents |-> <<[role |-> "user",
                             parts |-> <<[text |-> prompt],
                                         [inlineData |-> [mimeType |-> "image/jpeg",
                                                          data |-> image.data]]>>]>>])

GeminiVisionRequest(env, image, prompt, options) ==
    LET client == createGeminiClient(env) IN
    IF ~client.ok THEN client
    ELSE IF image.type /= "base64"
    THEN Throw(Str("Gemini via this SDK helper currently requires Base64."))
    ELSE GeminiGenerateContent(env,
            [model |-> Or(options.modelName, Str(DEFAULT_GEMINI_MODEL)),
             contents |-> <<[role |-> "user",
                             parts |-> <<[text |-> prompt],
                                         [inlineData |-> [mimeType |-> "image/jpeg",
                                                          data |-> image.data]]>>]>>])

GeminiVisionResult(r) == GeminiGenerateTextResult(r)

GEMINI_VISION_SUFFIX ==
    ". Describe the image in extreme detail focused on data extraction. Do not output JSON."

GeminiValidationPrompt(prompt) == Concat(prompt, Str(GEMINI_VISION_SUFFIX))

GeminiExtractionPrompt(rawDescription) ==
    Concat(Str("Extract data from this description:\n\n"), JsString(rawDescription))

GeminiEmbeddingsRequest(env, text, options) ==
    LET client == createGeminiClient(env) IN
    IF ~client.ok THEN client
    ELSE Ok([api |-> "gemini.models.embedContent",
             payload |-> [model |-> Or(options.model, Str(DEFAULT_GEMINI_EMBEDDING_MODEL)),
                          contents |-> <<[parts |-> <<[text |-> text]>>]>>]])

GeminiEmbeddingsResult(r) ==
    IF r.t = "throw" THEN Throw(r.error)
    ELSE LET embeddings == Get(r.value, "embeddings") IN
         IF ~Truthy(embeddings) \/ Len(embeddings.v) = 0
            \/ ~Truthy(Get(embeddings.v[1], "values"))
         THEN Throw(Str("No embeddings returned"))
         ELSE Ok(Get(embeddings.v[1], "values"))

GeminiWithToolsRequest(env, messages, tools, model) ==
    LET client == createGeminiClient(env) IN
    IF ~client.ok THEN client
    ELSE GeminiGenerateContent(env,
            [model |-> Or(model, Str(DEFAULT_GEMINI_MODEL)),
             contents |-> toGeminiHistory(messages),
             tools |-> [i \in DOMAIN tools |-> normalizeTool(tools[i])]])

RECURSIVE GeminiCollectCalls(_, _)
\* The tool_calls of generateWithTools: every functionCall part, with a
\* fresh id.
GeminiCollectCalls(parts, i) ==
    IF i > Len(parts) THEN <<>>
    ELSE (IF parts[i].functionCall = Undefined THEN <<>>
          ELSE <<[id |-> [prefix |-> "call_", uuid |-> i],
                  name |-> parts[i].functionCall.name,
                  arguments |-> parts[i].functionCall.args]>>)
         \o GeminiCollectCalls(parts, i + 1)

GeminiWithToolsResult(r) ==
    IF r.t = "throw" THEN Throw(r.error)
    ELSE LET parts == IF r.hasCandidate THEN r.parts ELSE <<>>
             content == GeminiText(parts, 1)
         IN Ok([content |-> Or(content, Null),
                tool_calls |-> Arr(GeminiCollectCalls(parts, 1))])

GeminiTextResponses ==
    {[t |-> "throw", error |-> Str("got status: 503")]}
    \cup {[t |-> "result", text |-> x] : x \in (AnswerTexts \ {Null}) \cup {Undefined}}

GeminiEmbeddingsResponses ==
    {[t |-> "throw", error |-> Str("got status: 503")],
     [t |-> "value", value |-> EmptyObj],
     [t |-> "value", value |-> Obj([embeddings |-> Arr(<<>>)])],
     [t |-> "value", value |-> Obj([embeddings |-> Arr(<<EmptyObj>>)])],
     [t |-> "value", value |->
        Obj([embeddings |-> Arr(<<Obj([values |-> Arr(<<Num(1), Num(2)>>)])>>)])]}

----------------------------------------------------------------------------
(* Dispatcher (src/ai/index.ts): one switch per operation.                 *)

\* options.provider || "worker-ai"
ProviderOrDefault(selector) == IF Truthy(selector) THEN selector ELSE Str("worker-ai")

\* A switch whose default branch rejects providers it does not know.
SwitchProvider_Strict(provider) ==
    CASE provider = Str("gemini")    -> "Gemini"
      [] provider = Str("openai")    -> "OpenAI"
      [] provider = Str("worker-ai") -> "WorkerAI"
      [] OTHER                       -> "throw"

\* switch (provider) { case "gemini": ... case "openai": ...
\*                     case "worker-ai": default: ... }
SwitchProvider(provider) ==
    CASE provider = Str("gemini") -> "Gemini"
      [] provider = Str("openai") -> "OpenAI"
      [] OTHER                    -> "WorkerAI"

Operations == {"generateText", "generateStructured", "generateEmbeddings",
               "generateVision", "generateVisionStructured",
               "generateWithTools", "generateStructuredWithTools"}

----------------------------------------------------------------------------
(* The call in flight.                                                     *)

NoInput   == [none |-> TRUE]
NoOutcome == [kind |-> "none"]
Returned(v) == [kind |-> "returned", value |-> v]
Thrown(e)   == [kind |-> "thrown", error |-> e]
NoLocals  == [stage |-> "none", rawDescription |-> Undefined,
              reasoningOutput |-> Undefined, structured |-> Undefined]

\* The caller has built no tool list yet.
NoHeap == [original |-> <<>>, tools |-> <<>>, round |-> 0]

InitCall ==
    /\ pc = "idle"
    /\ op = "none"
    /\ adapter = "none"
    /\ input = NoInput
    /\ calls = <<>>
    /\ resp = <<>>
    /\ locals = NoLocals
    /\ outcome = NoOutcome
    /\ heap = NoHeap

\* What callers pass.
PROMPT == "describe the kitchen"
Systems == {Undefined, Str("be brief")}
Models  == {Undefined, Str("custom-model")}
Efforts == {Undefined, Str("low"), Str("high")}

TextOptions ==
    [provider : Selectors, system : Systems, model : Models, reasoningEffort : Efforts]

ModelOptions == [provider : Selectors, model : Models]

UnknownProvider == Throw(Str("unknown provider"))

\* A dispatcher call reaches the first await of the adapter it was routed to
\* (req is the request sent), or is over with the error thrown before it.
AtStage(stage) == [NoLocals EXCEPT !.stage = stage]

\* Where the error err thrown inside operation o ends up: analyzeFailure
\* catches what generateStructured throws and returns null; every other
\* operation lets it reach the caller.
Failed(o, err) == IF o = "analyzeFailure" THEN Returned(Null) ELSE Thrown(err)

BeginCall(o, routed, in, req, frame) ==
    /\ pc = "idle"
    /\ op' = o
    /\ adapter' = routed
    /\ input' = in
    /\ IF req.ok
       THEN /\ calls' = Append(calls, req.val)
            /\ pc' = "awaiting"
            /\ locals' = frame
            /\ outcome' = outcome
       ELSE /\ calls' = calls
            /\ pc' = "done"
            /\ locals' = locals
            /\ outcome' = Failed(o, req.err)
    /\ UNCHANGED <<resp, normVars>>

\* A call that is given no tool objects.
Begin(o, routed, in, req, frame) ==
    /\ BeginCall(o, routed, in, req, frame)
    /\ UNCHANGED heap

\* The caller's tool objects once the adapter has run over in.tools and left
\* them as `after`.
HeapAfter(in, after) ==
    [original |-> IF heap.round = 0 THEN in.tools ELSE heap.original,
     tools |-> after, round |-> heap.round]

\* A call that is given the caller's tool objects.
BeginWithTools(o, routed, in, req, frame, after) ==
    /\ BeginCall(o, routed, in, req, frame)
    /\ heap' = HeapAfter(in, after)

\* The awaited backend call answered r and the adapter function finished:
\* it returned a value or threw.
Finish(r, result) ==
    /\ resp' = Append(resp, r)
    /\ outcome' = IF result.ok THEN Returned(result.val) ELSE Failed(op, result.err)
    /\ pc' = "done"
    /\ UNCHANGED <<op, adapter, input, calls, locals, heap, normVars>>

Awaiting(stage) == pc = "awaiting" /\ locals.stage = stage

\* WorkerAI.generateText wraps whatever its try block throws.
WrapTextError(req) == IF req.ok THEN req ELSE Throw(WorkerAITextError(req.err))

\* Dispatcher generateText.
GenerateText(options, env) ==
    LET routed == SwitchProvider(ProviderOrDefault(options.provider))
        req == CASE routed = "Gemini" ->
                      GeminiGenerateTextRequest(env, Str(PROMPT), options.system, options.model)
                 [] routed = "OpenAI" ->
                      OpenAIGenerateTextRequest(env, Str(PROMPT), options.system, options.model)
                 [] routed = "WorkerAI" ->
                      WrapTextError(WorkerAIGenerateTextRequest(env, Str(PROMPT),
                          options.system, options.model,
                          [effort |-> options.reasoningEffort, sanitize |-> FALSE]))
                 [] OTHER -> UnknownProvider
    IN Begin("generateText", routed,
             [options |-> options, env |-> env, prompt |-> Str(PROMPT)], req,
             AtStage("text"))

GenerateTextSettles(r) ==
    /\ Awaiting("text")
    /\ Finish(r, CASE adapter = "Gemini" -> GeminiGenerateTextResult(r)
                   [] adapter = "OpenAI" -> OpenAIGenerateTextResult(r)
                   [] OTHER -> WorkerAIGenerateTextResult(r, [sanitize |-> FALSE]))

\* The arguments of an adapter's generateStructured, kept across its awaits.
StructuredArgs(env, prompt, schemaArg, systemPrompt, options) ==
    [env |-> env, prompt |-> prompt, schema |-> schemaArg,
     systemPrompt |-> systemPrompt, options |-> options]

\* An adapter's generateStructured up to its first backend call.
StructuredRequest(routed, args) ==
    CASE routed = "Gemini" ->
            GeminiStructuredRequest(args.env, args.prompt, args.schema,
                                    args.systemPrompt, args.options)
      [] routed = "OpenAI" ->
            OpenAIStructuredRequest(args.env, args.prompt, args.schema,
                                    args.systemPrompt, args.options)
      [] routed = "WorkerAI" ->
            WrapTextError(WorkerAIReasoningRequest(args.env, args.prompt, args.options))
      [] OTHER -> UnknownProvider

StructuredStage(routed) == IF routed = "WorkerAI" THEN "reasoning" ELSE "structured"

\* Dispatcher generateStructured.
GenerateStructured(options, env) ==
    LET routed == SwitchProvider(ProviderOrDefault(options.provider))
        args == StructuredArgs(env, Str(PROMPT), TargetSchema, options.system,
                    IF routed = "WorkerAI"
                    THEN [reasoningEffort |-> options.reasoningEffort,
                          modelName |-> options.model,
                          structuringInstruction |-> Undefined]
                    ELSE [modelName |-> options.model])
    IN Begin("generateStructured", routed,
             [options |-> options, env |-> env, prompt |-> Str(PROMPT),
              schema |-> TargetSchema],
             StructuredRequest(routed, args),
             [AtStage(StructuredStage(routed)) EXCEPT !.structured = args])

\* The `details` a caller may hand to analyzeFailure: nothing, a plain
\* object, or a value JSON.stringify cannot serialize (a cycle, a BigInt).
Details == {"none", "object", "cyclic"}

\* details ? JSON.stringify(details, null, 2) : "None"
DetailsStr(details) ==
    CASE details = "none"   -> Ok(Str("None"))
      [] details = "object" -> Ok(Str("{\n  \"status\": \"FAILURE\"\n}"))
      [] OTHER              -> Throw(Str("Converting circular structure to JSON"))

\* The JSON Schema literal analyzeFailure asks for (its required keys).
ANALYSIS_SCHEMA ==
    Obj([type |-> Str("object"),
         required |-> Arr(<<Str("rootCause"), Str("suggestedFix"), Str("severity"),
                            Str("confidence"), Str("providedContext"),
                            Str("fixPrompt")>>)])

\* analyzeFailure(env, stepName, errorMsg, details): what it does before its
\* first await, then generateStructured on the default provider.
AnalyzeFailure(env, details) ==
    LET detailsStr == DetailsStr(details)
        options == [provider |-> Undefined, system |-> Undefined, model |-> Undefined,
                    reasoningEffort |-> Str("high")]
        in == [options |-> options, env |-> env, details |-> details,
               schema |-> ANALYSIS_SCHEMA]
    IN IF pc = "idle" /\ (~env.AI \/ ~detailsStr.ok)
       THEN /\ op' = "analyzeFailure"
            /\ adapter' = "WorkerAI"
            /\ input' = in
            /\ pc' = "done"
            \* JSON.stringify runs before the try block
            /\ outcome' = IF ~env.AI THEN Returned(Null) ELSE Thrown(detailsStr.err)
            /\ UNCHANGED <<calls, resp, locals, heap, normVars>>
       ELSE LET routed == SwitchProvider(ProviderOrDefault(options.provider))
                prompt == Concat(Str("You are a Site Reliability Engineer "),
                                 detailsStr.val)
                args == StructuredArgs(env, prompt, ANALYSIS_SCHEMA, options.system,
                            [reasoningEffort |-> options.reasoningEffort,
                             modelName |-> options.model,
                             structuringInstruction |-> Undefined])
            IN Begin("analyzeFailure", routed, in, StructuredRequest(routed, args),
                     [AtStage(StructuredStage(routed)) EXCEPT !.structured = args])

\* The awaited call answered r and the adapter went on to its next backend
\* call (req), or threw in between.
Continue(r, req, frame) ==
    /\ resp' = Append(resp, r)
    /\ IF req.ok
       THEN /\ calls' = Append(calls, req.val)
            /\ pc' = "awaiting"
            /\ locals' = frame
            /\ outcome' = outcome
       ELSE /\ calls' = calls
            /\ pc' = "done"
            /\ locals' = locals
            /\ outcome' = Failed(op, req.err)
    /\ UNCHANGED <<op, adapter, input, heap, normVars>>

\* Phase 1 of WorkerAI.generateStructured answered: generateText returns
\* reasoningOutput (or throws), then the guard, then the Phase 2 call.
WorkerAIReasoningSettles(r) ==
    /\ Awaiting("reasoning")
    /\ LET args == locals.structured
           reasoningOutput == WorkerAIGenerateTextResult(r, [sanitize |-> FALSE])
       IN IF ~reasoningOutput.ok THEN Finish(r, reasoningOutput)
          ELSE Continue(r,
                   WorkerAIStructuringRequest(args.env, reasoningOutput.val, args.schema,
                                              args.systemPrompt, args.options),
                   [locals EXCEPT !.stage = "structuring",
                                  !.reasoningOutput = reasoningOutput.val])

\* Phase 2 of WorkerAI.generateStructured answered.
WorkerAIStructuringSettles(r) ==
    /\ Awaiting("structuring")
    /\ Finish(r, WorkerAIStructuredResult(r))

\* The single call of OpenAI's or Gemini's generateStructured answered.
StructuredSettles(r) ==
    /\ Awaiting("structured")
    /\ Finish(r, IF adapter = "Gemini" THEN GeminiStructuredResult(r)
                 ELSE OpenAIStructuredResult(r))

VisionRequest(routed, env, image, prompt, options) ==
    CASE routed = "Gemini"   -> GeminiVisionRequest(env, image, prompt, options)
      [] routed = "OpenAI"   -> OpenAIVisionRequest(env, image, prompt, options)
      [] routed = "WorkerAI" -> WorkerAIVisionRequest(env, image, prompt, options)
      [] OTHER               -> UnknownProvider

VisionResult(r) ==
    CASE adapter = "Gemini" -> GeminiVisionResult(r)
      [] adapter = "OpenAI" -> OpenAIVisionResult(r)
      [] OTHER              -> WorkerAIVisionResult(r)

\* Dispatcher generateVision.
GenerateVision(options, env, image) ==
    LET routed == SwitchProvider(ProviderOrDefault(options.provider)) IN
    Begin("generateVision", routed,
          [options |-> options, env |-> env, image |-> image, prompt |-> Str(PROMPT)],
          VisionRequest(routed, env, image, Str(PROMPT), [modelName |-> options.model]),
          AtStage("vision"))

\* Dispatcher generateVisionStructured: the adapter's vision call first.
GenerateVisionStructured(options, env, image) ==
    LET routed == SwitchProvider(ProviderOrDefault(options.provider))
        validationPrompt == IF routed = "Gemini" THEN GeminiValidationPrompt(Str(PROMPT))
                            ELSE VisionValidationPrompt(Str(PROMPT))
    IN Begin("generateVisionStructured", routed,
             [options |-> options, env |-> env, image |-> image,
              prompt |-> Str(PROMPT), schema |-> TargetSchema],
             VisionRequest(routed, env, image, validationPrompt,
                           [modelName |-> options.model]),
             AtStage("vision"))

\* The vision call answered: generateVision is over, or
\* generateVisionStructured goes on to generateStructured.
VisionSettles(r) ==
    /\ Awaiting("vision")
    /\ LET rawDescription == VisionResult(r) IN
       IF op = "generateVision" \/ ~rawDescription.ok THEN Finish(r, rawDescription)
       ELSE LET extraction == IF adapter = "Gemini"
                              THEN GeminiExtractionPrompt(rawDescription.val)
                              ELSE VisionExtractionPrompt(rawDescription.val)
                args == StructuredArgs(input.env, extraction, input.schema, Undefined,
                            IF adapter = "WorkerAI"
                            THEN [reasoningEffort |-> Undefined,
                                  modelName |-> input.options.model,
                                  structuringInstruction |-> Undefined]
                            ELSE [modelName |-> input.options.model])
            IN Continue(r, StructuredRequest(adapter, args),
                        [locals EXCEPT !.stage = StructuredStage(adapter),
                                       !.rawDescription = rawDescription.val,
                                       !.structured = args])

\* Dispatcher generateEmbeddings.
GenerateEmbeddings(options, env) ==
    LET routed == SwitchProvider(ProviderOrDefault(options.provider))
        opts == [model |-> options.model]
        req == CASE routed = "Gemini"   -> GeminiEmbeddingsRequest(env, Str(PROMPT), opts)
                 [] routed = "OpenAI"   -> OpenAIEmbeddingsRequest(env, Str(PROMPT), opts)
                 [] routed = "WorkerAI" -> WorkerAIEmbeddingsRequest(env, Str(PROMPT), opts)
                 [] OTHER               -> UnknownProvider
    IN Begin("generateEmbeddings", routed,
             [options |-> options, env |-> env, text |-> Str(PROMPT)], req,
             AtStage("embeddings"))

EmbeddingsSettles(r) ==
    /\ Awaiting("embeddings")
    /\ Finish(r, CASE adapter = "Gemini" -> GeminiEmbeddingsResult(r)
                   [] adapter = "OpenAI" -> OpenAIEmbeddingsResult(r)
                   [] OTHER              -> WorkerAIEmbeddingsResult(r))

\* What normalizeTool leaves of the caller's tool object: an enveloped tool
\* has its `function` object converted and cleaned in place; a flat tool is
\* copied shallowly, so it shares its (non-Zod) parameters object with the
\* copy that is cleaned.
GeminiToolAfter(tool) ==
    IF Get(tool, "type") = Str("function") /\ Truthy(Get(tool, "function"))
    THEN Set(tool, "function", normalizeTool(tool))
    ELSE LET params == Get(tool, "parameters") IN
         IF Truthy(params) /\ ~IsZodLike(params)
         THEN Set(tool, "parameters", CleanNode(params, GeminiRejectedKeys))
         ELSE tool

\* The caller's tool objects after the synchronous part of an adapter's
\* generateWithTools. OpenAI and Gemini build their client first and do not
\* reach the tools when that throws.
ToolsAfterWithTools(routed, env, tools) ==
    CASE routed = "OpenAI" ->
            IF createOpenAIClient(env).ok
            THEN [i \in DOMAIN tools |-> OpenAICleanTool(tools[i])] ELSE tools
      [] routed = "Gemini" ->
            IF createGeminiClient(env).ok
            THEN [i \in DOMAIN tools |-> GeminiToolAfter(tools[i])] ELSE tools
      [] routed = "WorkerAI" -> [i \in DOMAIN tools |-> WorkerAICleanTool(tools[i])]
      [] OTHER -> tools

\* The same for generateStructuredWithTools, where every adapter maps over
\* the tools before it builds a client or reaches the binding.
ToolsAfterStructuredWithTools(routed, tools) ==
    CASE routed = "OpenAI"   -> [i \in DOMAIN tools |-> OpenAICleanTool(tools[i])]
      [] routed = "Gemini"   -> [i \in DOMAIN tools |-> GeminiToolAfter(tools[i])]
      [] routed = "WorkerAI" -> [i \in DOMAIN tools |-> WorkerAICleanTool(tools[i])]
      [] OTHER -> tools

\* Dispatcher generateWithTools.
GenerateWithTools(options, env, tools) ==
    LET routed == SwitchProvider(ProviderOrDefault(options.provider))
        req == CASE routed = "Gemini" ->
                      GeminiWithToolsRequest(env, Messages, tools, options.model)
                 [] routed = "OpenAI" ->
                      OpenAIWithToolsRequest(env, Messages, tools, options.model)
                 [] routed = "WorkerAI" ->
                      WorkerAIWithToolsRequest(env, Messages, tools, options.model)
                 [] OTHER -> UnknownProvider
    IN BeginWithTools("generateWithTools", routed,
             [options |-> options, env |-> env, tools |-> tools, messages |-> Messages],
             req, AtStage("withTools"), ToolsAfterWithTools(routed, env, tools))

WithToolsSettles(r) ==
    /\ Awaiting("withTools")
    /\ Finish(r, CASE adapter = "Gemini" -> GeminiWithToolsResult(r)
                   [] adapter = "OpenAI" -> OpenAIWithToolsResult(r)
                   [] OTHER              -> WorkerAIWithToolsResult(r))

\* Dispatcher generateStructuredWithTools and the adapter it forwards to, up
\* to the adapter's backend call. Worker AI catches what its request
\* preparation throws and returns a failure object; the other two adapters
\* prepare the request outside their try block.
GenerateStructuredWithTools(options, env, tools) ==
    LET routed == SwitchProvider(ProviderOrDefault(options.provider))
        req == CASE routed = "OpenAI" ->
                      OpenAIStructuredWithToolsRequest(env, Messages, tools, TargetSchema)
                 [] routed = "Gemini" ->
                      GeminiStructuredWithToolsRequest(env, Messages, tools, TargetSchema)
                 [] routed = "WorkerAI" ->
                      WorkerAIStructuredWithToolsRequest(env, Messages, tools, TargetSchema)
                 [] OTHER -> UnknownProvider
        in == [options |-> options, env |-> env, tools |-> tools,
               messages |-> Messages, schema |-> TargetSchema]
    IN IF pc = "idle" /\ routed = "WorkerAI" /\ ~req.ok
       THEN /\ op' = "generateStructuredWithTools"
            /\ adapter' = routed
            /\ input' = in
            /\ pc' = "done"
            /\ outcome' = Returned(FailureResponse(ErrorText(req.err)))
            /\ heap' = HeapAfter(in, ToolsAfterStructuredWithTools(routed, tools))
            /\ UNCHANGED <<calls, resp, locals, normVars>>
       ELSE BeginWithTools("generateStructuredWithTools", routed, in, req,
                           AtStage("structuredWithTools"),
                           ToolsAfterStructuredWithTools(routed, tools))

AwaitingTools(a) == Awaiting("structuredWithTools") /\ adapter = a

OpenAIStructuredWithToolsSettles(r) ==
    /\ AwaitingTools("OpenAI")
    /\ Finish(r, Ok(OpenAIStructuredWithToolsResult(r)))

WorkerAIStructuredWithToolsSettles(r) ==
    /\ AwaitingTools("WorkerAI")
    /\ Finish(r, Ok(WorkerAIStructuredWithToolsResult(r)))

GeminiStructuredWithToolsSettles(r) ==
    /\ AwaitingTools("Gemini")
    /\ Finish(r, Ok(GeminiStructuredWithToolsResult(r)))

\* What the backend of the adapter in charge may answer.
TextResponses ==
    CASE adapter = "Gemini" -> GeminiTextResponses
      [] adapter = "OpenAI" -> OpenAITextResponses
      [] OTHER              -> WorkerAITextResponses

StructuredResponses ==
    IF adapter = "Gemini" THEN GeminiTextResponses ELSE OpenAITextResponses

VisionResponses ==
    CASE adapter = "Gemini" -> GeminiTextResponses
      [] adapter = "OpenAI" -> OpenAITextResponses
      [] OTHER              -> WorkerAIVisionResponses

EmbeddingsResponses ==
    CASE adapter = "Gemini" -> GeminiEmbeddingsResponses
      [] adapter = "OpenAI" -> OpenAIEmbeddingsResponses
      [] OTHER              -> WorkerAIEmbeddingsResponses

WithToolsResponses ==
    CASE adapter = "Gemini" -> GeminiToolResponses
      [] adapter = "OpenAI" -> OpenAIResponses
      [] OTHER              -> WorkerAIToolResponses

\* No normalizer has run.
NoNorm == [by |-> "none", times |-> 0, input |-> Undefined, source |-> Undefined]

\* No endpoint has been asked, or it has not answered yet.
NotAsked == [t |-> "none"]

\* testToken has not been called.
NoTokenTest ==
    [pc |-> "idle", tests |-> 0, accountId |-> FALSE, expectedType |-> Undefined,
     probes |-> <<>>, account |-> NotAsked, verify |-> NotAsked,
     detectedType |-> Undefined, details |-> Undefined,
     failureReason |-> Undefined, health |-> Undefined]

\* A createItem request that has not arrived.
NoRequest == [pc |-> "idle", categoryId |-> [nan |-> FALSE, n |-> 0],
              sortOrder |-> 0, status |-> 0]

\* An items table without rows, and no request.
EmptyStore == [items |-> <<>>, reqs |-> [r \in 1..MaxRequests |-> NoRequest]]

\* createSSEStream(): an open stream with nothing enqueued.
NewStream == [closed |-> FALSE, frames |-> <<>>, log |-> <<>>]

\* No converter has been asked for a declaration.
NoDecl == [by |-> "none", name |-> "", schema |-> Undefined, result |-> Ok(Undefined)]

Init ==
    /\ InitCall
    /\ schema = EmptyObj
    /\ lastNorm = NoNorm
    /\ decl = NoDecl
    /\ recs = <<>>
    /\ sse = NewStream
    /\ tokenTest = NoTokenTest
    /\ store = EmptyStore

Next ==
    \/ pc = "idle" /\ \E options \in TextOptions, env \in Envs : GenerateText(options, env)
    \/ pc = "idle" /\ \E options \in TextOptions, env \in Envs : GenerateStructured(options, env)
    \/ pc = "idle" /\ \E options \in ModelOptions, env \in Envs : GenerateEmbeddings(options, env)
    \/ pc = "idle" /\ \E options \in ModelOptions, env \in Envs, image \in Images :
            GenerateVision(options, env, image)
    \/ pc = "idle" /\ \E options \in ModelOptions, env \in Envs, image \in Images :
            GenerateVisionStructured(options, env, image)
    \/ pc = "idle" /\ \E options \in ModelOptions, env \in Envs, tools \in ToolLists :
            GenerateWithTools(options, env, tools)
    \/ pc = "idle" /\ \E options \in ModelOptions, env \in Envs, tools \in ToolLists :
            GenerateStructuredWithTools(options, env, tools)
    \/ pc = "awaiting" /\ \E r \in TextResponses : GenerateTextSettles(r)
    \/ pc = "awaiting" /\ \E r \in WorkerAITextResponses : WorkerAIReasoningSettles(r)
    \/ pc = "awaiting" /\ \E r \in WorkerAIStructuringResponses : WorkerAIStructuringSettles(r)
    \/ pc = "awaiting" /\ \E r \in StructuredResponses : StructuredSettles(r)
    \/ pc = "awaiting" /\ \E r \in VisionResponses : VisionSettles(r)
    \/ pc = "awaiting" /\ \E r \in EmbeddingsResponses : EmbeddingsSettles(r)
    \/ pc = "awaiting" /\ \E r \in WithToolsResponses : WithToolsSettles(r)
    \/ pc = "awaiting" /\ \E r \in OpenAIResponses : OpenAIStructuredWithToolsSettles(r)
    \/ pc = "awaiting" /\ \E r \in WorkerAIToolResponses : WorkerAIStructuredWithToolsSettles(r)
    \/ pc = "awaiting" /\ \E r \in GeminiToolResponses : GeminiStructuredWithToolsSettles(r)

Spec == Init /\ [][Next]_vars


----------------------------------------------------------------------------
(* Vocabulary of the claims about generateStructuredWithTools.             *)

IsToolsCall == op = "generateStructuredWithTools"

\* The call is over and the backend had answered it.
ToolsCallSettled == IsToolsCall /\ pc = "done" /\ Len(resp) = 1

\* The tool invocations of the backend's turn, in the order returned, each
\* with the value its arguments amount to (if any). For OpenAI these are the
\* calls of kind "function", with arguments as JSON text; Worker AI and
\* Gemini deliver structured arguments, which may be missing.
TurnInvocations ==
    LET r == resp[1] IN
    CASE adapter = "OpenAI" ->
            IF r.t = "completion" /\ Truthy(r.tool_calls) THEN
                LET fs == SelectSeq(r.tool_calls.v, LAMBDA tc : tc.type = "function") IN
                [i \in DOMAIN fs |->
                    [name |-> fs[i].name,
                     valued |-> JSONParse(fs[i].arguments).ok,
                     value |-> IF JSONParse(fs[i].arguments).ok
                               THEN JSONParse(fs[i].arguments).val ELSE Undefined]]
            ELSE <<>>
      [] adapter = "WorkerAI" ->
            IF r.t = "value" /\ Truthy(Get(r.value, "tool_calls")) THEN
                LET tcs == Get(r.value, "tool_calls").v IN
                [i \in DOMAIN tcs |->
                    [name |-> tcs[i].name,
                     valued |-> tcs[i].arguments /= Undefined,
                     value |-> tcs[i].arguments]]
            ELSE <<>>
      [] adapter = "Gemini" ->
            IF r.t = "result" /\ r.hasCandidate THEN
                LET fs == SelectSeq(r.parts, LAMBDA part : part.functionCall /= Undefined) IN
                [i \in DOMAIN fs |->
                    [name |-> fs[i].functionCall.name,
                     valued |-> fs[i].functionCall.args /= Undefined,
                     value |-> fs[i].functionCall.args]]
            ELSE <<>>
      [] OTHER -> <<>>

SentinelInvoked == \E i \in DOMAIN TurnInvocations : TurnInvocations[i].name = SENTINEL

SentinelValues ==
    {TurnInvocations[i].value :
        i \in {j \in DOMAIN TurnInvocations :
                  TurnInvocations[j].name = SENTINEL /\ TurnInvocations[j].valued}}

\* names of the invocations other than the sentinel, in turn order
AncillaryNames ==
    LET others == SelectSeq(TurnInvocations, LAMBDA inv : inv.name /= SENTINEL)
    IN [i \in DOMAIN others |-> others[i].name]

ResultOf == outcome.value

\* names of result.tool_calls, in order (none when the field is absent)
ResultToolCallNames ==
    IF ResultOf.tool_calls = Undefined THEN <<>>
    ELSE [i \in DOMAIN ResultOf.tool_calls.v |-> ResultOf.tool_calls.v[i].name]

NonEmptyString(x) == x.t = "string" /\ Truthy(x)

\* The backend's answer with every invocation of the sentinel taken out.
WithoutSentinel(r) ==
    CASE adapter = "OpenAI" /\ r.t = "completion" /\ Truthy(r.tool_calls) ->
            [r EXCEPT !.tool_calls =
                Arr(SelectSeq(r.tool_calls.v,
                      LAMBDA tc : ~(tc.type = "function" /\ tc.name = SENTINEL)))]
      [] adapter = "WorkerAI" /\ r.t = "value" /\ Truthy(Get(r.value, "tool_calls")) ->
            [r EXCEPT !.value =
                Set(r.value, "tool_calls",
                    Arr(SelectSeq(Get(r.value, "tool_calls").v,
                          LAMBDA tc : tc.name /= SENTINEL)))]
      [] adapter = "Gemini" /\ r.t = "result" ->
            [r EXCEPT !.parts =
                SelectSeq(r.parts,
                    LAMBDA part : ~(part.functionCall /= Undefined
                                    /\ part.functionCall.name = SENTINEL))]
      [] OTHER -> r

AdapterResult(r) ==
    CASE adapter = "OpenAI"   -> OpenAIStructuredWithToolsResult(r)
      [] adapter = "WorkerAI" -> WorkerAIStructuredWithToolsResult(r)
      [] adapter = "Gemini"   -> GeminiStructuredWithToolsResult(r)

\* A result with the adapter-synthesized invocation ids left out.
SansIds(result) ==
    [is_success |-> result.is_success, response |-> result.response,
     content |-> result.content, error |-> result.error,
     tool_calls |-> IF result.tool_calls = Undefined THEN <<>>
                    ELSE [i \in DOMAIN result.tool_calls.v |->
                             [name |-> result.tool_calls.v[i].name,
                              arguments |-> result.tool_calls.v[i].arguments]]]

\* names of the tools in the request sent to the backend
SentToolNames ==
    LET req == calls[1]
        tools == IF "payload" \in DOMAIN req THEN req.payload.tools ELSE req.tools
    IN [i \in DOMAIN tools |-> ToolName(tools[i])]

CallerNames == [i \in DOMAIN input.tools |-> ToolName(input.tools[i])]

----------------------------------------------------------------------------
(* Claims C1..C6.                                                          *)

\* C1: for every adapter and every backend answer, the result has
\* is_success = TRUE exactly when the turn holds an invocation of
\* final_response whose arguments amount to a value.
C1_SuccessIffSentinelValued ==
    ToolsCallSettled =>
        /\ outcome.kind = "returned"
        /\ ResultOf.is_success <=> SentinelValues /= {}

\* C2: generateStructuredWithTools never throws; every failure comes back as
\* a result with is_success = FALSE and a populated error.
C2_NeverThrows ==
    (IsToolsCall /\ pc = "done") =>
        /\ outcome.kind = "returned"
        /\ ~ResultOf.is_success => NonEmptyString(ResultOf.error)

\* C3: a turn in which no invocation of final_response yields a value (it is
\* never invoked, or only with arguments that do not parse) returns, without
\* throwing, is_success = FALSE, a non-empty error and no response; and the
\* result is the one the same turn gives with the sentinel invocations
\* taken out, so both cases are treated alike.
C3_UnparsedSentinelIsAbsentSentinel ==
    (ToolsCallSettled /\ resp[1].t /= "throw" /\ SentinelValues = {}) =>
        /\ outcome.kind = "returned"
        /\ ~ResultOf.is_success
        /\ NonEmptyString(ResultOf.error)
        /\ ResultOf.response = Undefined
        /\ SansIds(ResultOf) = SansIds(AdapterResult(WithoutSentinel(resp[1])))

\* C3 witness: an OpenAI turn that invokes final_response with arguments that
\* do not parse has come back as a failure.
C3_Witness ==
    /\ ToolsCallSettled /\ adapter = "OpenAI"
    /\ SentinelInvoked /\ SentinelValues = {}
    /\ outcome.kind = "returned" /\ ~ResultOf.is_success

\* C4: when the turn invokes final_response with valid arguments, the result
\* has is_success = TRUE, response equal to the arguments of such an
\* invocation, and no error.
C4_ValidSentinelSucceeds ==
    (ToolsCallSettled /\ SentinelValues /= {}) =>
        /\ outcome.kind = "returned"
        /\ ResultOf.is_success
        /\ ResultOf.response \in SentinelValues
        /\ ResultOf.error = Undefined

\* C5: result.tool_calls holds exactly the turn's invocations other than
\* final_response, in the order returned, and never the sentinel.
C5_ToolCallsAreTheAncillaryInvocations ==
    (ToolsCallSettled /\ outcome.kind = "returned") =>
        ResultToolCallNames = AncillaryNames

\* C6 (as stated): the tools sent to the backend have pairwise distinct names
\* for any caller tool list whose own names are pairwise distinct.
C6_SentNamesDistinct ==
    (IsToolsCall /\ Len(calls) >= 1) =>
        (Distinct(CallerNames) => Distinct(SentToolNames))

\* C6 (amended): the tools sent to the backend are the caller's tools
\* followed by final_response, and their names are pairwise distinct for any
\* caller tool list whose names are pairwise distinct and do not include
\* final_response.
C6_SentNamesDistinctUnlessReserved ==
    (IsToolsCall /\ Len(calls) >= 1) =>
        /\ SentToolNames = Append(CallerNames, Str(SENTINEL))
        /\ (Distinct(CallerNames) /\ \A i \in DOMAIN CallerNames :
                                        CallerNames[i] /= Str(SENTINEL))
              => Distinct(SentToolNames)

\* C6 witness: a request with two caller tools and the sentinel is out.
C6_Witness ==
    /\ IsToolsCall /\ Len(calls) >= 1
    /\ Len(CallerNames) = 2
    /\ \A i \in DOMAIN CallerNames : CallerNames[i] /= Str(SENTINEL)
    /\ Len(SentToolNames) = 3

----------------------------------------------------------------------------
(* The schema normalizers applied to nested schemas.                       *)

\* Vendor and meta keys a schema node may carry next to its own keywords.
MetaKeySets == {{}, {"$schema"}, {"additionalProperties"}, {"def", "~standard"}}

MetaValue(k) ==
    CASE k = "$schema"              -> Str("http://json-schema.org/draft-07/schema#")
      [] k = "additionalProperties" -> Bool(FALSE)
      [] k = "~standard"            -> Obj([vendor |-> Str("zod")])
      [] OTHER                      -> Obj([typeName |-> Str("ZodObject")])

\* A schema node with the keywords kw and the meta keys ks.
SchemaNode(kw, ks) ==
    Obj([k \in (DOMAIN kw) \cup ks |-> IF k \in DOMAIN kw THEN kw[k] ELSE MetaValue(k)])

RECURSIVE SchemasOfDepth(_)
\* JSON Schemas nested at most d levels below the root, through `properties`,
\* `items` and `anyOf` (the union of zod-to-json-schema).
SchemasOfDepth(d) ==
    IF d = 0
    THEN {Bool(TRUE)} \cup {SchemaNode([type |-> Str("string")], ks) : ks \in MetaKeySets}
    ELSE LET below == SchemasOfDepth(d - 1) IN
         below
         \cup {SchemaNode([type |-> Str("object"), properties |-> Obj([a |-> c])], ks) :
                  c \in below, ks \in MetaKeySets}
         \cup {SchemaNode([type |-> Str("array"), items |-> c], ks) :
                  c \in below, ks \in MetaKeySets}
         \cup {SchemaNode([anyOf |-> Arr(<<c>>)], ks) :
                  c \in below, ks \in MetaKeySets}

Schemas == SchemasOfDepth(MaxDepth)

\* The value `lastNorm` takes when normalizer `by` has turned `schema`.
NormRecord(by) ==
    [by |-> by,
     times |-> IF lastNorm.by = by THEN lastNorm.times + 1 ELSE 1,
     input |-> schema,
     source |-> IF lastNorm.by = by THEN lastNorm.source ELSE schema]

CanNormalize(by) == lastNorm.by /= by \/ lastNorm.times < MaxNormalizations

NormalizeOpenAI ==
    /\ CanNormalize("OpenAI")
    /\ schema' = cleanOpenAISchema(schema)
    /\ lastNorm' = NormRecord("OpenAI")
    /\ UNCHANGED <<callVars, decl, recs, sse, tokenTest, store>>

NormalizeWorkerAI ==
    /\ CanNormalize("WorkerAI")
    /\ schema' = cleanWorkerAISchema(schema)
    /\ lastNorm' = NormRecord("WorkerAI")
    /\ UNCHANGED <<callVars, decl, recs, sse, tokenTest, store>>

\* Gemini normalizes the parameters of a function declaration.
NormalizeGemini ==
    /\ CanNormalize("Gemini")
    /\ schema' = Get(cleanGeminiParameters(Obj([name |-> Str("lookup"),
                                                parameters |-> schema])),
                     "parameters")
    /\ lastNorm' = NormRecord("Gemini")
    /\ UNCHANGED <<callVars, decl, recs, sse, tokenTest, store>>

InitNorm ==
    /\ InitCall
    /\ schema \in Schemas
    /\ lastNorm = NoNorm
    /\ decl = NoDecl
    /\ recs = <<>>
    /\ sse = NewStream
    /\ tokenTest = NoTokenTest
    /\ store = EmptyStore

NextNorm ==
    \/ NormalizeOpenAI
    \/ NormalizeWorkerAI
    \/ NormalizeGemini

SpecNorm == InitNorm /\ [][NextNorm]_vars

----------------------------------------------------------------------------
(* Claims C7..C10.                                                         *)

IsWorkerTwoPhase ==
    adapter = "WorkerAI" /\ op \in {"generateStructured", "generateVisionStructured"}

\* position of the Phase 1 answer among the backend answers of the call
Phase1Index == IF op = "generateVisionStructured" THEN 2 ELSE 1

Phase1Answered == IsWorkerTwoPhase /\ Len(resp) >= Phase1Index

\* what the reasoning call (WorkerAI.generateText) returned, or its throw
Phase1Output == WorkerAIGenerateTextResult(resp[Phase1Index], [sanitize |-> FALSE])

\* absent, empty, or made of whitespace only
IsBlank(x) ==
    \/ x \in {Undefined, Null}
    \/ x.t = "string" /\ \A i \in DOMAIN x.chars : x.chars[i] \in {" ", "\n"}

\* the structuring request is among the requests sent
StructuringIssued ==
    \E i \in DOMAIN calls : "response_format" \in DOMAIN calls[i].payload

\* C7: in Worker AI's two-phase generateStructured, when the reasoning call
\* returns absent, blank or whitespace-only output the call is over with an
\* error and no structuring request was sent; and a structuring request is
\* only ever sent after the reasoning call returned non-blank text.
C7_BlankReasoningStopsBeforeStructuring ==
    IsWorkerTwoPhase =>
        /\ (Phase1Answered /\ Phase1Output.ok /\ IsBlank(Phase1Output.val)) =>
              /\ pc = "done"
              /\ outcome.kind = "thrown"
              /\ NonEmptyString(outcome.error)
              /\ ~StructuringIssued
        /\ StructuringIssued =>
              /\ Phase1Answered
              /\ Phase1Output.ok
              /\ Phase1Output.val.t = "string"
              /\ ~IsBlank(Phase1Output.val)
              /\ locals.reasoningOutput = Phase1Output.val

\* C7 witness: a whitespace-only reasoning answer ended a generateStructured
\* call with an error after a single request.
C7_Witness ==
    /\ IsWorkerTwoPhase /\ op = "generateStructured"
    /\ Len(resp) = 1
    /\ resp[1] = [t |-> "value", value |-> Obj([response |-> Text(<<" ", "\n">>)])]
    /\ pc = "done" /\ outcome.kind = "thrown" /\ Len(calls) = 1

\* The effort hint in force for a call: the caller's, or the default "high"
\* of the two-phase path.
EffectiveEffort(e) ==
    IF op = "generateStructured" /\ ~Truthy(e) THEN Str("high") ELSE e

\* The first request the Worker AI adapter sends for the call in flight when
\* the caller's hint is e and everything else is as given.
Phase1RequestWith(e) ==
    IF op = "generateStructured"
    THEN WorkerAIReasoningRequest(input.env, input.prompt,
             [reasoningEffort |-> e, modelName |-> input.options.model,
              structuringInstruction |-> Undefined])
    ELSE WorkerAIGenerateTextRequest(input.env, input.prompt, input.options.system,
             input.options.model, [effort |-> e, sanitize |-> FALSE])

\* C8: the reasoning request Worker AI sends (generateStructured's Phase 1, or
\* generateText through the dispatcher) reflects the reasoning-effort hint:
\* the same call with another hint would have sent a different request.
C8_EffortReflectedInRequest ==
    (adapter = "WorkerAI" /\ op \in {"generateText", "generateStructured"}
       /\ Len(calls) >= 1) =>
        \A e \in {Str("low"), Str("medium"), Str("high")} :
            EffectiveEffort(e) /= EffectiveEffort(input.options.reasoningEffort)
                => Phase1RequestWith(e).val /= calls[1]

KnownProviders == {Str("gemini"), Str("openai"), Str("worker-ai")}

\* C9: in each of the seven dispatcher operations a selector that is absent
\* or names none of gemini, openai, worker-ai sends the call to the Worker AI
\* adapter (every request goes to the Workers AI binding), and no call ends
\* with an error raised by the dispatcher over the selector.
C9_UnknownSelectorRoutesToWorkerAI ==
    op /= "none" =>
        /\ op \in Operations
        /\ adapter \in {"Gemini", "OpenAI", "WorkerAI"}
        /\ input.options.provider \notin KnownProviders =>
              /\ adapter = "WorkerAI"
              /\ \A i \in DOMAIN calls : calls[i].api = "env.AI.run"
        /\ outcome /= Thrown(Str("unknown provider"))

\* C9 witness: a generateVisionStructured call with a selector naming no
\* adapter has sent its requests to the Workers AI binding and returned.
C9_Witness ==
    /\ op = "generateVisionStructured"
    /\ input.options.provider = Str("azure")
    /\ adapter = "WorkerAI"
    /\ Len(calls) = 3
    /\ outcome.kind = "returned"

\* C10: each backend's schema normalizer is idempotent: normalizing again
\* what the same normalizer has just produced gives an equal schema.
C10_NormalizersIdempotent ==
    lastNorm.times >= 2 => schema = lastNorm.input

\* C10 witness: the OpenAI normalizer ran twice in a row on a schema that
\* carried rejected keys two levels below its root.
C10_Witness ==
    /\ lastNorm.by = "OpenAI" /\ lastNorm.times = 2
    /\ lastNorm.source =
          SchemaNode([type |-> Str("object"),
                      properties |-> Obj([a |->
                          SchemaNode([type |-> Str("array"),
                                      items |-> SchemaNode([type |-> Str("string")],
                                                           {"def", "~standard"})],
                                     {"$schema"})])],
                     {"def", "~standard"})
    /\ schema /= lastNorm.source

----------------------------------------------------------------------------
(* Claims C11..C20.                                                        *)

\* The keys the backend of normalizer `by` rejects.
RejectedBy(by) ==
    CASE by = "OpenAI" -> {"$schema", "~standard", "def"}
      [] OTHER         -> {"$schema", "~standard", "def", "additionalProperties"}

RECURSIVE CarriesRejectedKey(_, _)
\* Some node of the schema tree x (x itself, a property schema, an item
\* schema or a member of a union) has one of the keys.
CarriesRejectedKey(x, keys) ==
    /\ x.t = "object"
    /\ \/ (DOMAIN x.v) \cap keys /= {}
       \/ /\ "properties" \in DOMAIN x.v
          /\ x.v["properties"].t = "object"
          /\ \E p \in DOMAIN x.v["properties"].v :
                CarriesRejectedKey(x.v["properties"].v[p], keys)
       \/ /\ "items" \in DOMAIN x.v
          /\ CarriesRejectedKey(x.v["items"], keys)
       \/ /\ "anyOf" \in DOMAIN x.v
          /\ \E i \in DOMAIN x.v["anyOf"].v :
                CarriesRejectedKey(x.v["anyOf"].v[i], keys)

\* C11: after normalization for a backend no node of the schema tree, at any
\* nesting level, carries a key that backend rejects.
C11_NoRejectedKeyAtAnyDepth ==
    lastNorm.by /= "none" => ~CarriesRejectedKey(schema, RejectedBy(lastNorm.by))

IsToolsOp == op \in {"generateWithTools", "generateStructuredWithTools"}

\* C12: after generateWithTools or generateStructuredWithTools is over, on
\* any provider, every tool object and parameter schema the caller passed in
\* equals what it was before the call.
C12_CallerToolsUnchanged ==
    (IsToolsOp /\ pc = "done") => heap.tools = heap.original

----------------------------------------------------------------------------
(* Calls made one after the other with the same tools list.                *)

\* The caller makes another call, passing the tool objects it passed before.
CallAgain ==
    /\ pc = "done"
    /\ IsToolsOp
    /\ heap.round < MaxRounds
    /\ pc' = "idle"
    /\ op' = "none"
    /\ adapter' = "none"
    /\ input' = NoInput
    /\ calls' = <<>>
    /\ resp' = <<>>
    /\ locals' = NoLocals
    /\ outcome' = NoOutcome
    /\ heap' = [heap EXCEPT !.round = @ + 1]
    /\ UNCHANGED normVars

\* the tool list of the next call: a fresh one, or the one already in use
ToolsInHand == IF heap.round = 0 THEN ToolLists ELSE {heap.tools}

SharedOptions == [provider : KnownProviders, model : {Undefined}]

NextShared ==
    \/ pc = "idle" /\ \E options \in SharedOptions, tools \in ToolsInHand :
            GenerateWithTools(options, FullEnv, tools)
    \/ pc = "idle" /\ \E options \in SharedOptions, tools \in ToolsInHand :
            GenerateStructuredWithTools(options, FullEnv, tools)
    \/ pc = "awaiting" /\ \E r \in WithToolsResponses : WithToolsSettles(r)
    \/ pc = "awaiting" /\ \E r \in OpenAIResponses : OpenAIStructuredWithToolsSettles(r)
    \/ pc = "awaiting" /\ \E r \in WorkerAIToolResponses : WorkerAIStructuredWithToolsSettles(r)
    \/ pc = "awaiting" /\ \E r \in GeminiToolResponses : GeminiStructuredWithToolsSettles(r)
    \/ CallAgain

SpecShared == Init /\ [][NextShared]_vars

\* The request the adapter in charge builds for the call in flight from the
\* tool list as the caller built it.
RequestAlone ==
    IF op = "generateWithTools" THEN
        CASE adapter = "OpenAI" ->
                OpenAIWithToolsRequest(input.env, Messages, heap.original, input.options.model)
          [] adapter = "Gemini" ->
                GeminiWithToolsRequest(input.env, Messages, heap.original, input.options.model)
          [] OTHER ->
                WorkerAIWithToolsRequest(input.env, Messages, heap.original, input.options.model)
    ELSE
        CASE adapter = "OpenAI" ->
                OpenAIStructuredWithToolsRequest(input.env, Messages, heap.original, TargetSchema)
          [] adapter = "Gemini" ->
                GeminiStructuredWithToolsRequest(input.env, Messages, heap.original, TargetSchema)
          [] OTHER ->
                WorkerAIStructuredWithToolsRequest(input.env, Messages, heap.original, TargetSchema)

\* C13: a call made after (or while) another call used the same tools list
\* sends its backend the request it would send if it ran alone.
C13_RequestAsIfAlone ==
    (IsToolsOp /\ Len(calls) >= 1) => calls[1] = RequestAlone.val

\* An invocation record with an id, a name and structured arguments.
IsCanonicalInvocation(tc) ==
    /\ {"id", "name", "arguments"} \subseteq DOMAIN tc
    /\ IsObjectLike(tc.arguments)

\* C14: every tool invocation generateWithTools returns, on every provider,
\* is a canonical record with an id (the backend's, or one the adapter made
\* up), a name and structured arguments.
C14_InvocationsCanonical ==
    (op = "generateWithTools" /\ pc = "done" /\ outcome.kind = "returned") =>
        \A i \in DOMAIN outcome.value.tool_calls.v :
            IsCanonicalInvocation(outcome.value.tool_calls.v[i])


----------------------------------------------------------------------------
(* The tool-declaration converters applied to present and absent schemas.  *)

DECL_DESCRIPTION == "a tool"

\* What a caller may hand to a converter as the parameter schema: nothing,
\* null, z.null(), or a Zod object schema (its JSON Schema nested one level).
DeclSchemas ==
    {Undefined, Null, ZodNullSchema}
    \cup {[t |-> "zod", typeName |-> "ZodObject", json |-> j] :
             j \in {x \in SchemasOfDepth(1) : x.t = "object"}}

DeclRecord(by, name, zschema, result) ==
    [by |-> by, name |-> name, schema |-> zschema, result |-> result]

ToOpenAITool(name, zschema) ==
    /\ decl' = DeclRecord("toOpenAITool", name, zschema,
                          Ok(toOpenAITool(name, DECL_DESCRIPTION, zschema)))
    /\ UNCHANGED <<callVars, schema, lastNorm, recs, sse, tokenTest, store>>

ToWorkerAITool(name, zschema) ==
    /\ decl' = DeclRecord("toWorkerAITool", name, zschema,
                          toWorkerAITool(name, DECL_DESCRIPTION, zschema))
    /\ UNCHANGED <<callVars, schema, lastNorm, recs, sse, tokenTest, store>>

ToGeminiTool(name, zschema) ==
    /\ decl' = DeclRecord("toGeminiTool", name, zschema,
                          toGeminiTool(name, DECL_DESCRIPTION, zschema))
    /\ UNCHANGED <<callVars, schema, lastNorm, recs, sse, tokenTest, store>>

NextDecl ==
    \/ \E name \in CallerToolNames, zschema \in DeclSchemas : ToOpenAITool(name, zschema)
    \/ \E name \in CallerToolNames, zschema \in DeclSchemas : ToWorkerAITool(name, zschema)
    \/ \E name \in CallerToolNames, zschema \in DeclSchemas : ToGeminiTool(name, zschema)

SpecDecl == Init /\ [][NextDecl]_vars

\* The parameter schema of a declaration, enveloped or flat.
DeclParameters(d) ==
    IF Truthy(Get(d, "function")) THEN Get(Get(d, "function"), "parameters")
    ELSE Get(d, "parameters")

\* An object schema without properties, in either spelling of the type.
IsEmptyObjectSchema(p) ==
    /\ Get(p, "type") \in {Str("object"), Str("OBJECT")}
    /\ Get(p, "properties") \in {Undefined, EmptyObj}

IsAbsentSchema(zschema) == HasNoDef(zschema) \/ zschema = ZodNullSchema

\* C15: for a tool whose parameter schema is absent or null, every converter
\* returns, without raising, a declaration whose parameter schema is an
\* object schema without properties.
C15_AbsentSchemaDeclaresEmptyObject ==
    (decl.by /= "none" /\ IsAbsentSchema(decl.schema)) =>
        /\ decl.result.ok
        /\ IsEmptyObjectSchema(DeclParameters(decl.result.val))

----------------------------------------------------------------------------
(* Vision input forms.                                                     *)

IsUrlVision == op = "generateVision" /\ input.image.type = "url"

\* The unsupported-input error of the adapter a.
UnsupportedInput(a) ==
    IF a = "Gemini" THEN Str("Gemini via this SDK helper currently requires Base64.")
    ELSE Str("Worker AI currently requires Base64 image input.")

\* The image reference OpenAI's request carries for the image.
OpenAIImageUrl(image) ==
    IF image.type = "url" THEN image.data
    ELSE Concat(Str("data:image/jpeg;base64,"), image.data)

\* OpenAI sends the image on in either form once its client exists.
OpenAIAcceptsImage ==
    (op = "generateVision" /\ adapter = "OpenAI" /\ createOpenAIClient(input.env).ok) =>
        /\ Len(calls) >= 1
        /\ calls[1].payload.messages[1].content[2].url = OpenAIImageUrl(input.image)

\* C16 as stated: generateVision on Worker AI or Gemini with a remote
\* reference ends in the adapter's unsupported-input error with no backend
\* request issued; OpenAI sends the image on in either form.
C16_UrlRejectedAsUnsupported ==
    /\ (IsUrlVision /\ adapter \in {"WorkerAI", "Gemini"}) =>
          /\ pc = "done"
          /\ calls = <<>>
          /\ outcome = Thrown(UnsupportedInput(adapter))
    /\ OpenAIAcceptsImage

\* C16, amended: generateVision on Worker AI or Gemini with a remote
\* reference ends in an error with no backend request issued; the error is
\* the adapter's unsupported-input error, except that Gemini, which creates
\* its client first, raises the missing-credential error when the client
\* cannot be created; OpenAI sends the image on in either form.
C16_UrlRejectedBeforeAnyCall ==
    /\ (IsUrlVision /\ adapter \in {"WorkerAI", "Gemini"}) =>
          /\ pc = "done"
          /\ calls = <<>>
          /\ outcome = IF adapter = "Gemini" /\ ~createGeminiClient(input.env).ok
                       THEN Thrown(createGeminiClient(input.env).err)
                       ELSE Thrown(UnsupportedInput(adapter))
    /\ OpenAIAcceptsImage

C16_Witness ==
    /\ IsUrlVision
    /\ adapter = "Gemini"
    /\ input.env = FullEnv
    /\ calls = <<>>
    /\ outcome = Thrown(UnsupportedInput("Gemini"))

----------------------------------------------------------------------------
(* Missing credentials.                                                    *)

\* The missing-credential error adapter a owes the caller under env, or
\* undefined when env holds everything the adapter's client needs.
MissingCredential(a, env) ==
    IF a = "OpenAI" /\ ~env.OPENAI_API_KEY
    THEN Str("Missing OPENAI_API_KEY")
    ELSE IF a = "OpenAI" /\ ~env.CLOUDFLARE_ACCOUNT_ID
    THEN Str("Missing CLOUDFLARE_ACCOUNT_ID in environment variables")
    ELSE IF a = "Gemini" /\ (~env.GEMINI_API_KEY \/ ~env.CLOUDFLARE_ACCOUNT_ID)
    THEN Str("Missing GEMINI_API_KEY or CLOUDFLARE_ACCOUNT_ID")
    ELSE Undefined

LacksCredential == op /= "none" /\ MissingCredential(adapter, input.env) /= Undefined

\* C17: whenever an operation of the OpenAI or Gemini adapter has been called
\* with a required key or the gateway's account id absent, the call is over,
\* it threw the missing-credential error, and no backend request was issued.
C17_MissingCredentialFailsBeforeAnyCall ==
    LacksCredential =>
        /\ pc = "done"
        /\ calls = <<>>
        /\ outcome = Thrown(MissingCredential(adapter, input.env))

C17_Witness ==
    /\ LacksCredential
    /\ adapter = "Gemini"
    /\ op = "generateStructuredWithTools"
    /\ ~input.env.CLOUDFLARE_ACCOUNT_ID
    /\ calls = <<>>
    /\ outcome.kind = "thrown"

----------------------------------------------------------------------------
(* Return shapes.                                                          *)

\* C18: on every provider, whatever generateText returns is a string
\* (possibly empty): not an object of the backend and not undefined or null.
C18_GenerateTextReturnsString ==
    (op = "generateText" /\ outcome.kind = "returned") => outcome.value.t = "string"

----------------------------------------------------------------------------
(* Error propagation on the plain generation paths.                        *)

PlainOperations == {"generateText", "generateStructured", "generateVision",
                    "generateEmbeddings", "generateWithTools"}

\* The answer the finished call received last.
LastResponse == resp[Len(resp)]

\* The backend call failed in transport.
TransportFailed(r) == r.t = "throw"

\* The answer carries malformed JSON text where the operation parses JSON:
\* the content of a structured answer, the arguments of a function tool call.
MalformedBody(r) ==
    \/ /\ op = "generateStructured"
       /\ \/ adapter = "OpenAI" /\ r.t = "completion" /\ r.content = Str(ArgBad)
          \/ adapter = "Gemini" /\ r.t = "result" /\ r.text = Str(ArgBad)
          \/ /\ adapter = "WorkerAI" /\ locals.stage = "structuring"
             /\ r.t = "value" /\ Get(r.value, "response") = Str(ArgBad)
    \/ /\ op = "generateWithTools" /\ adapter = "OpenAI"
       /\ r.t = "completion" /\ Truthy(r.tool_calls)
       /\ \E i \in DOMAIN r.tool_calls.v :
             /\ r.tool_calls.v[i].type = "function"
             /\ r.tool_calls.v[i].arguments = Str(ArgBad)

PlainCallFailed ==
    /\ op \in PlainOperations
    /\ pc = "done"
    /\ resp /= <<>>
    /\ TransportFailed(LastResponse) \/ MalformedBody(LastResponse)

----------------------------------------------------------------------------
(* The Workers AI model advisor (src/ai/utils/worker-ai-advisor.ts).       *)

\* UseCaseContext
UseCaseContexts ==
    {"strong-reasoning", "fast-inference", "code-generation", "vision", "multimodal",
     "embeddings", "image-generation", "speech-to-text", "text-to-speech",
     "translation", "summarization", "classification", "function-calling",
     "long-context", "multilingual", "cost-effective", "math-reasoning",
     "safety-moderation", "object-detection", "real-time-audio"}

\* The curated table, in the order Object.entries walks it.
MODEL_CAPABILITIES == <<
    [id |-> "@cf/openai/gpt-oss-120b",
     capabilities |-> <<"reasoning", "agentic", "production", "general-purpose">>,
     score |-> ("strong-reasoning" :> 95 @@ "function-calling" :> 85 @@ "code-generation" :> 80 @@ "long-context" :> 75)],
    [id |-> "@cf/openai/gpt-oss-20b",
     capabilities |-> <<"reasoning", "low-latency", "specialized">>,
     score |-> ("fast-inference" :> 90 @@ "strong-reasoning" :> 75 @@ "cost-effective" :> 85)],
    [id |-> "@cf/meta/llama-4-scout-17b-16e-instruct",
     capabilities |-> <<"multimodal", "moe", "vision", "batch", "function-calling">>,
     score |-> ("multimodal" :> 95 @@ "vision" :> 95 @@ "function-calling" :> 90 @@ "strong-reasoning" :> 85)],
    [id |-> "@cf/meta/llama-3.3-70b-instruct-fp8-fast",
     capabilities |-> <<"batch", "function-calling", "fast", "high-capacity">>,
     score |-> ("strong-reasoning" :> 90 @@ "fast-inference" :> 85 @@ "function-calling" :> 90 @@ "code-generation" :> 85)],
    [id |-> "@cf/meta/llama-3.1-8b-instruct-fast",
     capabilities |-> <<"fast", "multilingual">>,
     score |-> ("fast-inference" :> 95 @@ "cost-effective" :> 90 @@ "multilingual" :> 80)],
    [id |-> "@cf/meta/llama-3.1-8b-instruct",
     capabilities |-> <<"multilingual", "dialogue">>,
     score |-> ("cost-effective" :> 85 @@ "multilingual" :> 85 @@ "fast-inference" :> 75)],
    [id |-> "@cf/meta/llama-3.1-70b-instruct",
     capabilities |-> <<"multilingual", "high-capacity">>,
     score |-> ("strong-reasoning" :> 88 @@ "multilingual" :> 90 @@ "long-context" :> 85)],
    [id |-> "@cf/qwen/qwq-32b",
     capabilities |-> <<"reasoning", "thinking", "lora">>,
     score |-> ("strong-reasoning" :> 92 @@ "math-reasoning" :> 95 @@ "code-generation" :> 80)],
    [id |-> "@cf/qwen/qwen2.5-coder-32b-instruct",
     capabilities |-> <<"code", "lora">>,
     score |-> ("code-generation" :> 95 @@ "strong-reasoning" :> 75)],
    [id |-> "@cf/qwen/qwen3-30b-a3b-fp8",
     capabilities |-> <<"batch", "function-calling", "moe">>,
     score |-> ("function-calling" :> 90 @@ "multilingual" :> 85 @@ "strong-reasoning" :> 82)],
    [id |-> "@cf/google/gemma-3-12b-it",
     capabilities |-> <<"multimodal", "lora", "128k-context", "multilingual">>,
     score |-> ("long-context" :> 95 @@ "multimodal" :> 80 @@ "multilingual" :> 90 @@ "vision" :> 75)],
    [id |-> "@cf/mistralai/mistral-small-3.1-24b-instruct",
     capabilities |-> <<"vision", "128k-context", "function-calling">>,
     score |-> ("vision" :> 90 @@ "long-context" :> 95 @@ "function-calling" :> 88 @@ "multimodal" :> 85)],
    [id |-> "@cf/deepseek/deepseek-r1-distill-qwen-32b",
     capabilities |-> <<"reasoning", "distilled">>,
     score |-> ("strong-reasoning" :> 90 @@ "math-reasoning" :> 88)],
    [id |-> "@cf/meta/llama-guard-3-8b",
     capabilities |-> <<"safety", "moderation", "lora">>,
     score |-> ("safety-moderation" :> 95)],
    [id |-> "@cf/meta/llama-3.2-11b-vision-instruct",
     capabilities |-> <<"vision", "image-reasoning", "lora">>,
     score |-> ("vision" :> 92 @@ "multimodal" :> 88)],
    [id |-> "@cf/meta/llama-3.2-1b-instruct",
     capabilities |-> <<"lightweight", "fast">>,
     score |-> ("fast-inference" :> 95 @@ "cost-effective" :> 95)],
    [id |-> "@cf/meta/llama-3.2-3b-instruct",
     capabilities |-> <<"lightweight", "agent">>,
     score |-> ("fast-inference" :> 90 @@ "cost-effective" :> 90)],
    [id |-> "@cf/ibm/granite-4.0-h-micro",
     capabilities |-> <<"function-calling", "agentic", "rag", "edge">>,
     score |-> ("function-calling" :> 92 @@ "fast-inference" :> 88 @@ "cost-effective" :> 85)],
    [id |-> "@hf/nousresearch/hermes-2-pro-mistral-7b",
     capabilities |-> <<"function-calling", "json-mode">>,
     score |-> ("function-calling" :> 88 @@ "cost-effective" :> 82)],
    [id |-> "@cf/google/embeddinggemma-300m",
     capabilities |-> <<"embeddings", "multilingual", "100-languages">>,
     score |-> ("embeddings" :> 95 @@ "multilingual" :> 95)],
    [id |-> "@cf/baai/bge-m3",
     capabilities |-> <<"embeddings", "multilingual", "multi-granularity">>,
     score |-> ("embeddings" :> 90 @@ "multilingual" :> 90)],
    [id |-> "@cf/baai/bge-large-en-v1.5",
     capabilities |-> <<"embeddings", "batch", "1024-dim">>,
     score |-> ("embeddings" :> 88)],
    [id |-> "@cf/baai/bge-base-en-v1.5",
     capabilities |-> <<"embeddings", "batch", "768-dim">>,
     score |-> ("embeddings" :> 82 @@ "cost-effective" :> 85)],
    [id |-> "@cf/baai/bge-small-en-v1.5",
     capabilities |-> <<"embeddings", "batch", "384-dim">>,
     score |-> ("embeddings" :> 75 @@ "cost-effective" :> 95 @@ "fast-inference" :> 90)],
    [id |-> "@cf/qwen/qwen3-embedding-0.6b",
     capabilities |-> <<"embeddings", "ranking">>,
     score |-> ("embeddings" :> 85)],
    [id |-> "@cf/black-forest-labs/flux-2-dev",
     capabilities |-> <<"image-gen", "multi-reference", "partner">>,
     score |-> ("image-generation" :> 95)],
    [id |-> "@cf/black-forest-labs/flux-1-schnell",
     capabilities |-> <<"image-gen", "fast", "12b-params">>,
     score |-> ("image-generation" :> 88 @@ "fast-inference" :> 90)],
    [id |-> "@cf/leonardo/lucid-origin",
     capabilities |-> <<"image-gen", "text-rendering", "partner">>,
     score |-> ("image-generation" :> 90)],
    [id |-> "@cf/leonardo/phoenix-1.0",
     capabilities |-> <<"image-gen", "prompt-adherence", "partner">>,
     score |-> ("image-generation" :> 85)],
    [id |-> "@cf/bytedance/stable-diffusion-xl-lightning",
     capabilities |-> <<"image-gen", "fast", "1024px">>,
     score |-> ("image-generation" :> 82 @@ "fast-inference" :> 95)],
    [id |-> "@cf/deepgram/nova-3",
     capabilities |-> <<"asr", "batch", "partner", "real-time">>,
     score |-> ("speech-to-text" :> 95 @@ "real-time-audio" :> 95)],
    [id |-> "@cf/deepgram/flux",
     capabilities |-> <<"asr", "voice-agents", "partner", "real-time">>,
     score |-> ("speech-to-text" :> 92 @@ "real-time-audio" :> 95)],
    [id |-> "@cf/openai/whisper-large-v3-turbo",
     capabilities |-> <<"asr", "multilingual">>,
     score |-> ("speech-to-text" :> 90 @@ "multilingual" :> 88)],
    [id |-> "@cf/openai/whisper",
     capabilities |-> <<"asr", "multilingual", "translation">>,
     score |-> ("speech-to-text" :> 85 @@ "multilingual" :> 85 @@ "translation" :> 70)],
    [id |-> "@cf/deepgram/aura-2-en",
     capabilities |-> <<"tts", "batch", "partner", "real-time">>,
     score |-> ("text-to-speech" :> 95 @@ "real-time-audio" :> 90)],
    [id |-> "@cf/deepgram/aura-1",
     capabilities |-> <<"tts", "batch", "partner", "real-time">>,
     score |-> ("text-to-speech" :> 88 @@ "real-time-audio" :> 85)],
    [id |-> "@cf/myshell-ai/melotts",
     capabilities |-> <<"tts", "multilingual">>,
     score |-> ("text-to-speech" :> 80 @@ "multilingual" :> 85)],
    [id |-> "@cf/meta/m2m100-1.2b",
     capabilities |-> <<"translation", "batch", "many-to-many">>,
     score |-> ("translation" :> 90 @@ "multilingual" :> 95)],
    [id |-> "@cf/ai4bharat/indictrans2-en-indic-1B",
     capabilities |-> <<"translation", "indic-languages">>,
     score |-> ("translation" :> 85)],
    [id |-> "@cf/huggingface/distilbert-sst-2-int8",
     capabilities |-> <<"classification", "sentiment">>,
     score |-> ("classification" :> 85)],
    [id |-> "@cf/baai/bge-reranker-base",
     capabilities |-> <<"reranking", "relevance">>,
     score |-> ("classification" :> 80 @@ "embeddings" :> 70)],
    [id |-> "@cf/facebook/bart-large-cnn",
     capabilities |-> <<"summarization">>,
     score |-> ("summarization" :> 85)],
    [id |-> "@cf/facebook/detr-resnet-50",
     capabilities |-> <<"object-detection", "coco">>,
     score |-> ("object-detection" :> 85)],
    [id |-> "@cf/pipecat-ai/smart-turn-v2",
     capabilities |-> <<"vad", "batch", "real-time">>,
     score |-> ("real-time-audio" :> 90)]>>

\* meta.score[context] || 0
ScoreFor(meta, context) ==
    IF context \in DOMAIN meta.score THEN meta.score[context] ELSE 0

\* The entries with a positive score for the context, in table order.
Scored(context) ==
    LET positive == SelectSeq(MODEL_CAPABILITIES, LAMBDA meta : ScoreFor(meta, context) > 0)
    IN [i \in DOMAIN positive |->
           [id |-> positive[i].id, score |-> ScoreFor(positive[i], context),
            caps |-> positive[i].capabilities]]

RECURSIVE InsertByScore_Unstable(_, _)
\* InsertByScore with x placed before the elements of equal score.
InsertByScore_Unstable(sorted, x) ==
    IF sorted = <<>> THEN <<x>>
    ELSE IF Head(sorted).score > x.score
         THEN <<Head(sorted)>> \o InsertByScore_Unstable(Tail(sorted), x)
         ELSE <<x>> \o sorted

RECURSIVE InsertByScore(_, _)
\* x placed behind every element whose score is not below its own.
InsertByScore(sorted, x) ==
    IF sorted = <<>> THEN <<x>>
    ELSE IF Head(sorted).score >= x.score
         THEN <<Head(sorted)>> \o InsertByScore(Tail(sorted), x)
         ELSE <<x>> \o sorted

RECURSIVE SortByScore(_, _)
\* scored.sort((a, b) => b.score - a.score): descending and stable.
SortByScore(scored, i) ==
    IF i = 0 THEN <<>>
    ELSE InsertByScore(SortByScore(scored, i - 1), scored[i])

Includes(caps, c) == \E i \in DOMAIN caps : caps[i] = c

TaskTypeOf(caps) ==
    IF Includes(caps, "embeddings") THEN "Text Embeddings"
    ELSE IF Includes(caps, "image-gen") THEN "Text-to-Image"
    ELSE IF Includes(caps, "asr") THEN "Automatic Speech Recognition"
    ELSE IF Includes(caps, "tts") THEN "Text-to-Speech"
    ELSE IF Includes(caps, "translation") THEN "Translation"
    ELSE IF Includes(caps, "classification") \/ Includes(caps, "reranking")
         THEN "Text Classification"
    ELSE IF Includes(caps, "summarization") THEN "Summarization"
    ELSE IF Includes(caps, "object-detection") THEN "Object Detection"
    ELSE IF Includes(caps, "vad") THEN "Voice Activity Detection"
    ELSE "Text Generation"

\* DEFAULT_RECOMMENDATION with the first alternative in place of the model.
DEFAULT_RECOMMENDATION_Swapped ==
    [modelId |-> "@cf/meta/llama-3.3-70b-instruct-fp8-fast",
     reason |-> "No specific model found",
     alternatives |-> <<"@cf/meta/llama-3.1-8b-instruct", "@cf/qwen/qwen3-30b-a3b-fp8">>,
     taskType |-> "Text Generation",
     capabilities |-> <<"multilingual", "dialogue">>]

DEFAULT_RECOMMENDATION ==
    [modelId |-> "@cf/meta/llama-3.1-8b-instruct",
     reason |-> "No specific model found",
     alternatives |-> <<"@cf/meta/llama-3.3-70b-instruct-fp8-fast",
                        "@cf/qwen/qwen3-30b-a3b-fp8">>,
     taskType |-> "Text Generation",
     capabilities |-> <<"multilingual", "dialogue">>]

\* Recommendation with scored.slice(0, 3) as the alternatives.
Recommendation_SliceFromBest(context, ranked) ==
    IF ranked = <<>> THEN DEFAULT_RECOMMENDATION
    ELSE LET best == ranked[1]
             last == IF Len(ranked) < 3 THEN Len(ranked) ELSE 3
         IN [modelId |-> best.id,
             reason |-> IF context \in UseCaseContexts THEN context ELSE "Best match",
             alternatives |-> [i \in 1..last |-> ranked[i].id],
             taskType |-> TaskTypeOf(best.caps),
             capabilities |-> best.caps]

\* The recommendation built from the ranking `ranked` of the scored entries.
Recommendation(context, ranked) ==
    IF ranked = <<>> THEN DEFAULT_RECOMMENDATION
    ELSE LET best == ranked[1]
             last == IF Len(ranked) < 4 THEN Len(ranked) ELSE 4
         IN [modelId |-> best.id,
             reason |-> IF context \in UseCaseContexts THEN context ELSE "Best match",
             alternatives |-> [i \in 1..(last - 1) |-> ranked[i + 1].id],
             taskType |-> TaskTypeOf(best.caps),
             capabilities |-> best.caps]

\* recommendModel without the sort: the first scored entry is taken as best.
recommendModel_Unsorted(context) == Recommendation(context, Scored(context))

recommendModel(context) ==
    LET scored == Scored(context) IN
    Recommendation(context, SortByScore(scored, Len(scored)))

\* What a caller may pass as the context: a use case, or a string that is none.
Contexts == UseCaseContexts \cup {"poetry"}

RecommendModel(context) ==
    /\ Len(recs) < MaxRecommendations
    /\ recs' = Append(recs, [context |-> context, result |-> recommendModel(context)])
    /\ UNCHANGED <<callVars, schema, lastNorm, decl, sse, tokenTest, store>>

NextAdvisor == \E context \in Contexts : RecommendModel(context)

SpecAdvisor == Init /\ [][NextAdvisor]_vars

\* The table entries with the given id.
EntriesOf(modelId) ==
    {i \in DOMAIN MODEL_CAPABILITIES : MODEL_CAPABILITIES[i].id = modelId}

HasPositiveEntry(context) ==
    \E i \in DOMAIN MODEL_CAPABILITIES : ScoreFor(MODEL_CAPABILITIES[i], context) > 0

\* C20: every recommendation given for a use case with at least one
\* positively scored table entry names a table entry whose score for that use
\* case is greater than or equal to the score of every table entry.
C20_RecommendsTopScore ==
    \A n \in DOMAIN recs :
        HasPositiveEntry(recs[n].context) =>
            \E b \in EntriesOf(recs[n].result.modelId) :
                \A i \in DOMAIN MODEL_CAPABILITIES :
                    ScoreFor(MODEL_CAPABILITIES[b], recs[n].context)
                        >= ScoreFor(MODEL_CAPABILITIES[i], recs[n].context)

C20_Witness ==
    \E n \in DOMAIN recs :
        /\ recs[n].context = "function-calling"
        /\ recs[n].result.modelId = "@cf/ibm/granite-4.0-h-micro"
        /\ Len(recs[n].result.alternatives) = 3

----------------------------------------------------------------------------
(* Claims C21..C30.                                                        *)

\* The table index of the entry with the given id (ids are the keys of the
\* table, hence unique).
IndexOf(modelId) == CHOOSE i \in DOMAIN MODEL_CAPABILITIES : MODEL_CAPABILITIES[i].id = modelId

IsTableId(modelId) == EntriesOf(modelId) /= {}

ScoreOfId(modelId, context) == ScoreFor(MODEL_CAPABILITIES[IndexOf(modelId)], context)

\* The number of table entries with a positive score for the context.
PositiveCount(context) ==
    Cardinality({i \in DOMAIN MODEL_CAPABILITIES :
                    ScoreFor(MODEL_CAPABILITIES[i], context) > 0})

\* The recommended id followed by the alternatives.
Podium(r) == <<r.modelId>> \o r.alternatives

\* C21: for a use case with a positively scored entry, the alternatives are
\* the entries ranked second to fourth: as many as there are further scored
\* entries but at most three, each a table id with a positive score, none
\* the recommended model, no id twice, in descending score order below the
\* recommended model, and no entry left out scores above the last of them.
C21_AlternativesAreRanksTwoToFour ==
    \A n \in DOMAIN recs :
        LET c == recs[n].context
            r == recs[n].result
            podium == Podium(r)
            others == PositiveCount(c) - 1
        IN HasPositiveEntry(c) =>
            /\ Len(r.alternatives) = IF others < 3 THEN others ELSE 3
            /\ \A k \in DOMAIN podium : IsTableId(podium[k]) /\ ScoreOfId(podium[k], c) > 0
            /\ \A k, l \in DOMAIN podium : k < l =>
                  /\ podium[k] /= podium[l]
                  /\ ScoreOfId(podium[k], c) >= ScoreOfId(podium[l], c)
            /\ \A i \in DOMAIN MODEL_CAPABILITIES :
                  (\A k \in DOMAIN podium : podium[k] /= MODEL_CAPABILITIES[i].id) =>
                      ScoreFor(MODEL_CAPABILITIES[i], c)
                          <= ScoreOfId(podium[Len(podium)], c)

C21_Witness ==
    \E n \in DOMAIN recs :
        /\ recs[n].context = "code-generation"
        /\ Len(recs[n].result.alternatives) = 3
        /\ recs[n].result.alternatives[1] /= recs[n].result.modelId

\* C22: for a context no table entry scores positively, the recommendation
\* is the default: model @cf/meta/llama-3.1-8b-instruct with the generic
\* justification.
C22_NoEntryGivesDefault ==
    \A n \in DOMAIN recs :
        ~HasPositiveEntry(recs[n].context) =>
            /\ recs[n].result.modelId = "@cf/meta/llama-3.1-8b-instruct"
            /\ recs[n].result.reason = "No specific model found"

C22_Witness ==
    \E n \in DOMAIN recs :
        /\ recs[n].context = "poetry"
        /\ recs[n].result.modelId = "@cf/meta/llama-3.1-8b-instruct"

\* C25: among the recommended model and the alternatives, entries of equal
\* score stand in table order, and no entry that ties with the recommended
\* model is defined before it in the table.
C25_TiesInTableOrder ==
    \A n \in DOMAIN recs :
        LET c == recs[n].context
            podium == Podium(recs[n].result)
        IN HasPositiveEntry(c) =>
            /\ \A k, l \in DOMAIN podium :
                  (k < l /\ ScoreOfId(podium[k], c) = ScoreOfId(podium[l], c)) =>
                      IndexOf(podium[k]) < IndexOf(podium[l])
            /\ \A i \in DOMAIN MODEL_CAPABILITIES :
                  ScoreFor(MODEL_CAPABILITIES[i], c) = ScoreOfId(podium[1], c) =>
                      IndexOf(podium[1]) <= i

C25_Witness ==
    \E n \in DOMAIN recs :
        /\ recs[n].context = "fast-inference"
        /\ recs[n].result.modelId = "@cf/meta/llama-3.1-8b-instruct-fast"
        /\ recs[n].result.alternatives[1] = "@cf/meta/llama-3.2-1b-instruct"
        /\ ScoreOfId(recs[n].result.alternatives[1], "fast-inference")
              = ScoreOfId(recs[n].result.modelId, "fast-inference")

----------------------------------------------------------------------------
(* The progress stream (src/ai/utils/streaming.ts).                        *)

\* StreamEvent.type
EventTypes == {"progress", "data", "error", "complete", "plan",
               "pillar_start", "pillar_progress", "pillar_complete"}

\* Values a caller may pass as `data`: none, a falsy value, a plain object,
\* and a value JSON.stringify cannot serialize (a cycle, a BigInt).
DataValues == {"none", "zero", "object", "cyclic"}

DataTruthy(d) == d \in {"object", "cyclic"}

\* JSON.stringify({ ...event, timestamp }) throws a TypeError on such data.
StringifyThrows(event) == event.data = "cyclic"

STREAM_COMPLETED == "Stream completed"

Event(type, message, data) == [type |-> type, message |-> message, data |-> data]

\* send(event) on the stream st: the stream afterwards and whether the call
\* threw. JSON.stringify runs first; controller.enqueue throws once the
\* stream is closed.
send(st, event) ==
    IF StringifyThrows(event) \/ st.closed
    THEN [stream |-> st, threw |-> TRUE]
    ELSE [stream |-> [st EXCEPT !.frames = Append(@, event)], threw |-> FALSE]

\* complete(data): one send, then controller.close() if the send returned.
complete(st, data) ==
    LET sent == IF DataTruthy(data) THEN send(st, Event("complete", "none", data))
                ELSE send(st, Event("complete", STREAM_COMPLETED, "none"))
    IN IF sent.threw THEN sent
       ELSE [stream |-> [sent.stream EXCEPT !.closed = TRUE], threw |-> FALSE]

\* The stream with the call and its effect appended to the log.
Logged(call, after) ==
    [after.stream EXCEPT !.log =
        Append(@, [call |-> call,
                   closedBefore |-> sse.closed, closedAfter |-> after.stream.closed,
                   added |-> SubSeq(after.stream.frames, Len(sse.frames) + 1,
                                    Len(after.stream.frames)),
                   threw |-> after.threw])]

StreamCall(call, after) ==
    /\ Len(sse.log) < MaxStreamCalls
    /\ sse' = Logged(call, after)
    /\ UNCHANGED <<callVars, schema, lastNorm, decl, recs, tokenTest, store>>

Send(type, data) == StreamCall("send", send(sse, Event(type, "text", data)))

SendProgress == StreamCall("sendProgress", send(sse, Event("progress", "text", "none")))

SendData(data) == StreamCall("sendData", send(sse, Event("data", "text", data)))

SendError == StreamCall("sendError", send(sse, Event("error", "text", "none")))

Complete(data) == StreamCall("complete", complete(sse, data))

SendPlan(plan) == StreamCall("sendPlan", send(sse, Event("plan", "none", plan)))

SendPillarStart ==
    StreamCall("sendPillarStart", send(sse, Event("pillar_start", "text", "none")))

SendPillarProgress ==
    StreamCall("sendPillarProgress", send(sse, Event("pillar_progress", "text", "object")))

SendPillarComplete ==
    StreamCall("sendPillarComplete", send(sse, Event("pillar_complete", "text", "object")))

\* The reader of `stream` cancels it (the client went away).
ReaderCancels ==
    StreamCall("cancel", [stream |-> [sse EXCEPT !.closed = TRUE], threw |-> FALSE])

NextStream ==
    \/ \E type \in EventTypes, data \in DataValues : Send(type, data)
    \/ SendProgress
    \/ \E data \in DataValues : SendData(data)
    \/ SendError
    \/ \E data \in DataValues : Complete(data)
    \/ \E plan \in DataValues : SendPlan(plan)
    \/ SendPillarStart
    \/ SendPillarProgress
    \/ SendPillarComplete
    \/ ReaderCancels

SpecStream == Init /\ [][NextStream]_vars

IsCompleteFrame(f) == f.type = "complete"

\* Calls that may end the stream: complete(), and the reader's cancel.
EndingCalls == {"complete", "cancel"}

\* C23: every complete() on an open stream adds exactly one frame, of type
\* complete, and closes the stream; a call on a closed stream adds no frame;
\* and no call other than complete() (or the reader's cancel) closes it.
C23_CompleteIsTheLastFrame ==
    \A n \in DOMAIN sse.log :
        LET e == sse.log[n] IN
        /\ (e.call = "complete" /\ ~e.closedBefore) =>
              /\ Len(e.added) = 1
              /\ IsCompleteFrame(e.added[1])
              /\ e.closedAfter
        /\ e.closedBefore => e.added = <<>>
        /\ e.call \notin EndingCalls => e.closedAfter = e.closedBefore

----------------------------------------------------------------------------
(* The diagnostic helper.                                                  *)

\* analyzeFailure and the two backend calls of the generateStructured it
\* awaits.
NextDiagnosis ==
    \/ pc = "idle" /\ \E env \in Envs, details \in Details : AnalyzeFailure(env, details)
    \/ pc = "awaiting" /\ \E r \in WorkerAITextResponses : WorkerAIReasoningSettles(r)
    \/ pc = "awaiting" /\ \E r \in WorkerAIStructuringResponses : WorkerAIStructuringSettles(r)

SpecDiagnosis == Init /\ [][NextDiagnosis]_vars

AnalyzeFailureOver == op = "analyzeFailure" /\ pc = "done"

\* C24: analyzeFailure never ends thrown; without an AI binding it returns
\* null with no backend request issued; and when its backend call fails or
\* the answer cannot be used, it returns null.
C24_AnalyzeFailureNeverThrows ==
    AnalyzeFailureOver =>
        /\ outcome.kind = "returned"
        /\ ~input.env.AI => (calls = <<>> /\ outcome = Returned(Null))
        /\ (resp /= <<>> /\ resp[Len(resp)].t = "throw") => outcome = Returned(Null)

----------------------------------------------------------------------------
(* OpenAI: the tool calls of a turn.                                       *)

\* An OpenAI tools call is over and its backend answer carried tool calls.
OpenAITurnOver ==
    /\ IsToolsOp /\ adapter = "OpenAI" /\ pc = "done"
    /\ resp /= <<>> /\ resp[1].t = "completion" /\ Truthy(resp[1].tool_calls)

\* The tool calls of the backend's answer.
TurnCalls == resp[1].tool_calls.v

\* The invocations handed back to the caller.
ReturnedToolCalls ==
    IF outcome.kind = "returned" /\ outcome.value.tool_calls.t = "array"
    THEN outcome.value.tool_calls.v ELSE <<>>

FunctionCalls == {i \in DOMAIN TurnCalls : TurnCalls[i].type = "function"}

\* C26: on OpenAI, no invocation returned by generateWithTools or
\* generateStructuredWithTools stems from a backend call whose kind is not
\* function, and generateStructuredWithTools reports success only if a call
\* of kind function named final_response with parsable arguments was there.
C26_NonFunctionCallsDiscarded ==
    OpenAITurnOver =>
        /\ \A k \in DOMAIN ReturnedToolCalls :
              \E i \in FunctionCalls : TurnCalls[i].id = ReturnedToolCalls[k].id
        /\ Len(ReturnedToolCalls) <= Cardinality(FunctionCalls)
        /\ (op = "generateStructuredWithTools" /\ outcome.value.is_success) =>
              \E i \in FunctionCalls :
                  /\ TurnCalls[i].name = SENTINEL
                  /\ JSONParse(TurnCalls[i].arguments).ok
                  /\ outcome.value.response = JSONParse(TurnCalls[i].arguments).val

C26_Witness ==
    /\ OpenAITurnOver
    /\ op = "generateStructuredWithTools"
    /\ Len(TurnCalls) = 2
    /\ TurnCalls[1].type = "custom"
    /\ TurnCalls[2].type = "function" /\ TurnCalls[2].name = "lookup"
    /\ Len(ReturnedToolCalls) = 1
    /\ ~outcome.value.is_success

\* An ancillary (non-sentinel) function call of the turn has arguments that
\* are not valid JSON.
HasUnparsedAncillary ==
    \E i \in FunctionCalls :
        TurnCalls[i].name /= SENTINEL /\ ~JSONParse(TurnCalls[i].arguments).ok

\* C28: an OpenAI generateStructuredWithTools turn holding an ancillary
\* function call with unparsable arguments returns the bare failure object:
\* is_success false, the parse error as error, no tool_calls, no response.
C28_UnparsedAncillaryFailsTheTurn ==
    (OpenAITurnOver /\ op = "generateStructuredWithTools" /\ HasUnparsedAncillary) =>
        outcome = Returned(FailureResponse(Str("Unexpected end of JSON input")))

C28_Witness ==
    /\ OpenAITurnOver
    /\ op = "generateStructuredWithTools"
    /\ HasUnparsedAncillary
    /\ \E i \in FunctionCalls :
          TurnCalls[i].name = SENTINEL /\ JSONParse(TurnCalls[i].arguments).ok
    /\ outcome.kind = "returned"
    /\ ~outcome.value.is_success

----------------------------------------------------------------------------
(* generateVisionStructured: the order of its backend calls.               *)

\* The request carries an image.
IsVisionRequest(call) ==
    CASE adapter = "WorkerAI" -> "image" \in DOMAIN call.payload
      [] adapter = "Gemini"   -> Len(call.payload.contents[1].parts) = 2
      [] OTHER                -> "response_format" \notin DOMAIN call.payload

\* The text of the user message of a text-only request.
UserPrompt(call) ==
    IF adapter = "Gemini" THEN call.payload.contents[1].parts[1].text
    ELSE call.payload.messages[Len(call.payload.messages)].content

\* The request is Worker AI's Phase 1 (reasoning) call.
IsReasoningRequest(call) ==
    /\ "messages" \in DOMAIN call.payload
    /\ "response_format" \notin DOMAIN call.payload
    /\ call.payload.messages[1].content = Str(ANALYZE_INSTRUCTION)

\* The request asks for output under a schema.
IsStructuringRequest(call) ==
    IF adapter = "Gemini" THEN "responseSchema" \in DOMAIN call.payload.config
    ELSE "response_format" \in DOMAIN call.payload

\* The text `prompt` ends with the string form of `description`.
Embeds(prompt, description) ==
    LET p == prompt.chars
        d == JsString(description).chars
    IN Len(p) >= Len(d) /\ SubSeq(p, Len(p) - Len(d) + 1, Len(p)) = d

\* What the adapter's generateVision made of the first answer.
FirstDescription == VisionResult(resp[1])

\* C29: in generateVisionStructured a backend call is issued only once all
\* earlier ones have answered; the first call carries the image; a second
\* call exists only if the vision call returned a description, is text-only
\* and its prompt ends with that description; a failed vision call leaves
\* one call issued and its error thrown. Worker AI issues at most vision,
\* reasoning, structuring in this order; the other adapters vision, then
\* the structured call.
C29_VisionThenStructured ==
    op = "generateVisionStructured" =>
        /\ Len(calls) <= Len(resp) + 1
        /\ Len(calls) >= 1 => IsVisionRequest(calls[1])
        /\ Len(calls) >= 2 =>
              /\ FirstDescription.ok
              /\ ~IsVisionRequest(calls[2])
              /\ Embeds(UserPrompt(calls[2]), FirstDescription.val)
        /\ (resp /= <<>> /\ ~FirstDescription.ok) =>
              /\ Len(calls) = 1
              /\ pc = "done"
              /\ outcome = Thrown(FirstDescription.err)
        /\ IF adapter = "WorkerAI"
           THEN /\ Len(calls) <= 3
                /\ Len(calls) >= 2 => IsReasoningRequest(calls[2])
                /\ Len(calls) >= 3 => IsStructuringRequest(calls[3])
           ELSE /\ Len(calls) <= 2
                /\ Len(calls) >= 2 => IsStructuringRequest(calls[2])

C29_Witness ==
    /\ op = "generateVisionStructured"
    /\ adapter = "WorkerAI"
    /\ Len(calls) = 3
    /\ FirstDescription.val = Str("a red door")
    /\ Embeds(UserPrompt(calls[2]), Str("a red door"))
    /\ pc = "done"

----------------------------------------------------------------------------
(* testToken: account-level check, user-level fallback, final validation.  *)

\* What the caller may pass as expectedType.
ExpectedTypes == {Undefined, Str("user"), Str("account")}

\* What client.accounts.get / client.accounts.list may answer.
AccountOutcomes ==
    { Throw(Str("403 Forbidden")),
      Ok(Null),
      Ok(Obj([id |-> Str("acct")])) }

\* What client.user.tokens.verify may answer.
VerifyOutcomes ==
    { Throw(Str("401 Unauthorized")),
      Ok(Null),
      Ok(EmptyObj),
      Ok(Obj([status |-> Str("active")])),
      Ok(Obj([status |-> Str("disabled")])),
      Ok(Obj([status |-> Str("expired")])) }

VERIFY_NOTE == "Validated via user.tokens.verify (likely narrow scope)"

\* A fallback that never takes the caller's expectation into account.
FallbackType_AlwaysUser(expectedType) == Str("user")

\* expectedType === "account" ? "account" : "user"
FallbackType(expectedType) ==
    IF expectedType = Str("account") THEN Str("account") ELSE Str("user")

\* A TokenHealth object; absent members are undefined.
TokenHealth(passed, reason, detectedType, details) ==
    [passed |-> passed, reason |-> reason, detectedType |-> detectedType,
     details |-> details]

\* Step 3 of testToken, reached with the locals as steps 1 and 2 left them.
FinalValidation(expectedType, detectedType, details) ==
    IF Truthy(detectedType)
    THEN IF Truthy(expectedType) /\ expectedType /= detectedType
         THEN TokenHealth(FALSE,
                  Concat(Str("Token valid but type mismatch. Expected '"),
                    Concat(JsString(expectedType),
                      Concat(Str("' but detected '"),
                        Concat(JsString(detectedType), Str("'."))))),
                  detectedType, details)
         ELSE TokenHealth(TRUE, Undefined, detectedType, details)
    ELSE TokenHealth(FALSE, Str("Unknown validation error"), Undefined, Undefined)

\* The failure returned when both checks threw.
BothFailed(failureReason, message) ==
    TokenHealth(FALSE,
        Concat(Str("Validation failed. Account check error: ["),
          Concat(JsString(failureReason),
            Concat(Str("]. User verify error: ["),
              Concat(message, Str("]"))))),
        Undefined, Undefined)

\* testToken up to its first await: the client is built and step 1 asks the
\* account endpoint chosen by env.CLOUDFLARE_ACCOUNT_ID.
TestToken(accountId, expectedType) ==
    /\ tokenTest.pc \in {"idle", "done"}
    /\ tokenTest.tests < MaxTokenTests
    /\ tokenTest' = [NoTokenTest EXCEPT
                  !.pc = "account",
                  !.tests = tokenTest.tests + 1,
                  !.accountId = accountId,
                  !.expectedType = DefaultParam(expectedType, Str("account")),
                  !.probes = <<IF accountId THEN "accounts.get" ELSE "accounts.list">>]
    /\ UNCHANGED <<callVars, schema, lastNorm, decl, recs, sse, store>>

\* Step 1 settles. A truthy answer detects an account token and step 3 runs;
\* otherwise (a throw stores its message) step 2 asks the verify endpoint.
AccountSettles(result) ==
    /\ tokenTest.pc = "account"
    /\ LET detected == result.ok /\ Truthy(result.val)
           after == [tokenTest EXCEPT
                        !.account = result,
                        !.detectedType = IF detected THEN Str("account") ELSE Undefined,
                        !.details = IF detected THEN result.val ELSE Undefined,
                        !.failureReason = IF result.ok THEN Undefined ELSE result.err]
       IN tokenTest' = IF ~Truthy(after.detectedType)
                 THEN [after EXCEPT !.pc = "verify",
                                    !.probes = Append(tokenTest.probes, "user.tokens.verify")]
                 ELSE [after EXCEPT !.pc = "done",
                                    !.health = FinalValidation(after.expectedType,
                                                   after.detectedType, after.details)]
    /\ UNCHANGED <<callVars, schema, lastNorm, decl, recs, sse, store>>

\* Step 2 settles. Reading verify.status of null throws inside the try.
VerifySettles(result) ==
    /\ tokenTest.pc = "verify"
    /\ LET status == Get(result.val, "status") IN
       tokenTest' =
         IF ~result.ok
         THEN [tokenTest EXCEPT !.pc = "done", !.verify = result,
                          !.health = BothFailed(tokenTest.failureReason, result.err)]
         ELSE IF ~Truthy(result.val)
         THEN [tokenTest EXCEPT !.pc = "done", !.verify = result,
                          !.health = BothFailed(tokenTest.failureReason,
                                         Str("Cannot read properties of null"))]
         ELSE IF status = Str("active")
         THEN LET detectedType == FallbackType(tokenTest.expectedType)
                  details == Set(result.val, "note", Str(VERIFY_NOTE))
              IN [tokenTest EXCEPT !.pc = "done", !.verify = result,
                             !.detectedType = detectedType,
                             !.details = details,
                             !.health = FinalValidation(tokenTest.expectedType,
                                            detectedType, details)]
         ELSE [tokenTest EXCEPT !.pc = "done", !.verify = result,
                          !.health = TokenHealth(FALSE,
                                         Concat(Str("Token status: "), JsString(status)),
                                         Undefined, result.val)]
    /\ UNCHANGED <<callVars, schema, lastNorm, decl, recs, sse, store>>

NextToken ==
    \/ \E accountId \in BOOLEAN, expectedType \in ExpectedTypes :
          TestToken(accountId, expectedType)
    \/ \E result \in AccountOutcomes : AccountSettles(result)
    \/ \E result \in VerifyOutcomes : VerifySettles(result)

SpecToken == Init /\ [][NextToken]_vars

\* Step 1 answered with an account.
AccountCheckSucceeded == tokenTest.account /= NotAsked /\ tokenTest.account.ok /\ Truthy(tokenTest.account.val)

\* The verify endpoint reported status active.
VerifyActive ==
    /\ tokenTest.verify /= NotAsked
    /\ tokenTest.verify.ok
    /\ Get(tokenTest.verify.val, "status") = Str("active")

\* The returned object is the type-mismatch failure.
IsTypeMismatch(health) == ~health.passed /\ health.detectedType /= Undefined

\* C27: the verify endpoint is asked only after the account check answered
\* without detecting a type; when it then reports status active the detected
\* type is account if account was expected and user otherwise, and the
\* result has passed = true; the type-mismatch failure is returned only
\* after an account check that succeeded for a caller expecting user.
C27_FallbackAdoptsExpectedType ==
    /\ "user.tokens.verify" \in {tokenTest.probes[i] : i \in DOMAIN tokenTest.probes} =>
          /\ tokenTest.account /= NotAsked
          /\ ~AccountCheckSucceeded
    /\ tokenTest.pc = "done" =>
          /\ (~AccountCheckSucceeded /\ VerifyActive) =>
                /\ tokenTest.health.passed
                /\ tokenTest.health.detectedType = tokenTest.expectedType
                /\ tokenTest.health.detectedType \in {Str("account"), Str("user")}
          /\ IsTypeMismatch(tokenTest.health) =>
                /\ AccountCheckSucceeded
                /\ tokenTest.verify = NotAsked
                /\ tokenTest.expectedType = Str("user")

C27_Witness ==
    /\ tokenTest.pc = "done"
    /\ ~AccountCheckSucceeded
    /\ VerifyActive
    /\ tokenTest.expectedType = Str("account")
    /\ tokenTest.health.passed

----------------------------------------------------------------------------
(* createItem: POST /api/categories/{categoryId}/items.                    *)

\* The {categoryId} path segments requests arrive with; categories 1 and 2
\* exist.
CategorySegments == {"1", "2", "kitchen"}

NaN == [nan |-> TRUE, n |-> 0]

\* parseInt(v, 10)
ParseInt(v) ==
    CASE v = "1" -> [nan |-> FALSE, n |-> 1]
      [] v = "2" -> [nan |-> FALSE, n |-> 2]
      [] OTHER   -> NaN

\* The sort orders of the rows of one category.
SortOrdersOf(items, categoryId) ==
    {items[i].sortOrder : i \in {j \in DOMAIN items : items[j].categoryId = categoryId}}

\* select sortOrder ... where categoryId = ? order by sortOrder desc limit 1
MaxSortOrder(items, categoryId) ==
    LET orders == SortOrdersOf(items, categoryId) IN
    IF orders = {} THEN Undefined
    ELSE Num(CHOOSE m \in orders : \A o \in orders : o <= m)

\* The handler up to its first await: the parameter is parsed, NaN is
\* answered with 400, otherwise the select is sent.
CreateItem(r, segment) ==
    /\ store.reqs[r].pc = "idle"
    /\ LET categoryId == ParseInt(segment) IN
       store' = [store EXCEPT !.reqs[r] =
                    IF categoryId.nan
                    THEN [@ EXCEPT !.pc = "done", !.categoryId = categoryId, !.status = 400]
                    ELSE [@ EXCEPT !.pc = "selecting", !.categoryId = categoryId]]
    /\ UNCHANGED <<callVars, schema, lastNorm, decl, recs, sse, tokenTest>>

\* The database answers the select of request r; the handler computes the
\* sort order and sends the insert.
SelectMax(r) ==
    /\ store.reqs[r].pc = "selecting"
    /\ LET resultMax == MaxSortOrder(store.items, store.reqs[r].categoryId.n) IN
       store' = [store EXCEPT !.reqs[r] =
                    [@ EXCEPT !.pc = "inserting",
                              !.sortOrder = IF resultMax = Undefined THEN 0
                                            ELSE resultMax.v + 1]]
    /\ UNCHANGED <<callVars, schema, lastNorm, decl, recs, sse, tokenTest>>

\* The database executes the insert of request r; the handler answers 201.
InsertItem(r) ==
    /\ store.reqs[r].pc = "inserting"
    /\ store' = [store EXCEPT
                    !.items = Append(@, [id |-> r,
                                         categoryId |-> store.reqs[r].categoryId.n,
                                         isChecked |-> FALSE,
                                         sortOrder |-> store.reqs[r].sortOrder]),
                    !.reqs[r] = [@ EXCEPT !.pc = "done", !.status = 201]]
    /\ UNCHANGED <<callVars, schema, lastNorm, decl, recs, sse, tokenTest>>

NextStore ==
    \/ \E r \in 1..MaxRequests, segment \in CategorySegments : CreateItem(r, segment)
    \/ \E r \in 1..MaxRequests : SelectMax(r)
    \/ \E r \in 1..MaxRequests : InsertItem(r)

SpecStore == Init /\ [][NextStore]_vars

\* C30: every row of the items table has a sortOrder strictly greater than
\* that of every row inserted before it in the same category, so no two rows
\* of one category share a sortOrder.
C30_SortOrdersStrictlyIncrease ==
    \A i, j \in DOMAIN store.items :
        (i < j /\ store.items[i].categoryId = store.items[j].categoryId) =>
            store.items[i].sortOrder < store.items[j].sortOrder

====
